---------------------------- MODULE Spec2Model ----------------------------
(***************************************************************************)
(* Model of the per-account message de-duplication and reply engine of     *)
(* the Fanvue auto responder (src/fanvue_responder.py,                     *)
(* EnhancedFanvueAutoResponder).                                           *)
(*                                                                         *)
(* A chat message is a record [uuid, sender, text, sentAt].  Timestamps    *)
(* are ISO-8601 strings that the code only compares and tests for          *)
(* truthiness; they are modelled by the naturals 0..MaxTs in the same      *)
(* order, 0 being the empty string "" that msg.get("sentAt", "") yields    *)
(* for a missing timestamp (the least string, and the only falsy one).     *)
(***************************************************************************)
EXTENDS Naturals, Sequences, FiniteSets

VARIABLES
    conv,                      \* platform side: subscriber -> chat history, oldest first
    processed_messages,        \* self.processed_messages
    last_message_timestamps,   \* self.last_message_timestamps (a dict: partial function)
    state_file,                \* contents of message_state_<account>.json, or NoFile
    pc,                        \* position of the responder process
    idx,                       \* position of monitor_single_cycle in the subscriber list
    user_uuid,                 \* subscriber of the latest check_for_unanswered_messages call
    my_uuid,                   \* what get_current_user gave that call
    messages,                  \* what get_chat_messages gave that call (fetch order)
    unanswered_messages,       \* what that call returned
    selected,                  \* history: uuids selected as reply target at least once
    reselected,                \* history: uuids selected as reply target more than once
    generated,                 \* history: reply targets handed to send_message, this run
    viewed,                    \* history: uuids of the views resolved so far, this run
    unanswered_message_count,  \* local of monitor_single_cycle
    consecutive_errors,        \* local of monitor_account_continuously
    dispatch,                  \* history: what the latest respond_to_messages call did
    subscriber_error,          \* history: a subscriber's processing raised in this cycle
    failed_cycles,             \* history: how many cycles in a row ended in a failure
    source,                    \* account source: ids of the accounts that have not expired
    tasks,                     \* the monitor tasks made with asyncio.create_task
    running_tasks,             \* self.running_tasks: account id -> task
    responders,                \* self.responders: account id -> responder (by its task)
    saved_version,             \* account id -> state in message_state_<id>.json
    shutdown_event,            \* self.shutdown_event
    shutdown_pc,               \* position of each call of shutdown
    gathered,                  \* the tasks each call of shutdown awaits in gather
    main_pc,                   \* position of run / start_monitoring_all_accounts
    refresh_pc,                \* position of periodic_account_refresh
    pool,                      \* db_manager.pool
    current_account_ids,       \* local of periodic_account_refresh
    page,                      \* local of get_subscribers
    all_subscribers,           \* local of get_subscribers
    subscribers_pc,            \* position of get_subscribers
    pages,                     \* platform side: the pages of the subscriber list
    requested,                 \* history: the page numbers get_subscribers asked for
    generation_pc,             \* position of the generation call
    account_llm,               \* self.account.llm, the cached model identifier
    source_llm,                \* account source: the llm of the account's record
    backend_used,              \* history: the backend the generation call used
    generation_result,         \* how the generation call ended
    waited_time,               \* local of generate_response_with_fal_ai
    status,                    \* the status the latest poll was answered with
    polls,                     \* history: status requests sent
    submits                    \* history: jobs submitted

vars == <<conv, processed_messages, last_message_timestamps, state_file, pc, idx,
          user_uuid, my_uuid, messages, unanswered_messages,
          selected, reselected, generated, viewed,
          unanswered_message_count, consecutive_errors, dispatch, subscriber_error,
          failed_cycles,
          source, tasks, running_tasks, responders, saved_version, shutdown_event,
          shutdown_pc, gathered, main_pc, refresh_pc, pool, current_account_ids,
          page, all_subscribers, subscribers_pc, pages, requested,
          generation_pc, account_llm, source_llm, backend_used, generation_result,
          waited_time, status, polls, submits>>

(* the variables of the monitor loop and its histories *)
monitor_vars == <<unanswered_message_count, consecutive_errors, dispatch,
                  subscriber_error, failed_cycles>>

(* the variables of the manager of all accounts *)
manager_vars == <<source, tasks, running_tasks, responders, saved_version,
                  shutdown_event, shutdown_pc, gathered, main_pc, refresh_pc, pool,
                  current_account_ids>>

(* the variables of a get_subscribers call *)
subscribers_vars == <<page, all_subscribers, subscribers_pc, pages, requested>>

(* the variables of a generation call *)
generation_vars == <<generation_pc, account_llm, source_llm, backend_used,
                     generation_result, waited_time, status, polls, submits>>

-----------------------------------------------------------------------------
(* Bounds of the model *)

MaxMsgs == 3        \* messages on the platform, all chats together
MaxTs == 2          \* timestamps 1..MaxTs besides the empty one
MaxView == 2        \* length of a fetched list in the resolver-only specification
MaxChat == 4        \* length of the chat in the dialogue specification
MaxTasks == 3       \* monitor tasks the manager makes in a run
MaxChanges == 1     \* changes of its state a responder makes in a run

-----------------------------------------------------------------------------
(* Values *)

EmptyTs == 0                        \* the string "" of msg.get("sentAt", "")
Timestamps == EmptyTs..MaxTs
OperatorUuid == "op"                \* uuid of the account's own user
NoUuid == ""                        \* current_user.get("uuid", "") of a failed lookup
Subscribers == <<"subA", "subB">>   \* what get_subscribers returns, in order
SubscriberUuids == {Subscribers[i] : i \in 1..Len(Subscribers)}
Texts == {"", " ", "hi"}            \* empty, whitespace only, proper text

Message(u, s, t, at) == [uuid |-> u, sender |-> s, text |-> t, sentAt |-> at]

(* str.strip(): whitespace-only text becomes empty. *)
Strip(t) == IF t = " " THEN "" ELSE t

-----------------------------------------------------------------------------
(* check_for_unanswered_messages, as pure operators *)

Last(seq) == seq[Len(seq)]
Front(seq) == SubSeq(seq, 1, Len(seq) - 1)
Max(S) == CHOOSE x \in S : \A y \in S : y <= x

(* One step of a stable ascending sort: m goes behind every element whose   *)
(* key is not greater than its own.                                         *)
InsertBySentAt(sorted, m) ==
    LET k == Cardinality({i \in 1..Len(sorted) : sorted[i].sentAt <= m.sentAt})
    IN  SubSeq(sorted, 1, k) \o <<m>> \o SubSeq(sorted, k + 1, Len(sorted))

(* list.sort(key=lambda x: x.get("sentAt", "")): stable, ascending. *)
RECURSIVE SortBySentAt(_)
SortBySentAt(seq) ==
    IF seq = <<>> THEN <<>>
    ELSE InsertBySentAt(SortBySentAt(Front(seq)), Last(seq))

(* self.last_message_timestamps.get(user_uuid, "") *)
LastProcessedTimestamp(lmt, u) == IF u \in DOMAIN lmt THEN lmt[u] ELSE EmptyTs

(* Variant with a slip: looks at the oldest message instead of the newest. *)
MostRecentIsOurs_Oldest(sorted, my) == sorted[1].sender = my

(* the most recent message, after sorting, is from us *)
MostRecentIsOurs(sorted, my) == Last(sorted).sender = my

(* Variant with a slip: the test against processed_messages is missing. *)
IsNewSubscriberMessage_NoProcessedTest(m, my, pm, last) ==
    /\ ~(m.sender = my \/ Strip(m.text) = "")
    /\ ~(last # EmptyTs /\ m.sentAt <= last)

(* the two "continue" tests of the collection loop, negated *)
IsNewSubscriberMessage(m, my, pm, last) ==
    /\ ~(m.sender = my \/ Strip(m.text) = "" \/ m.uuid \in pm)
    /\ ~(last # EmptyTs /\ m.sentAt <= last)

NewSubscriberMessages(sorted, my, pm, last) ==
    SelectSeq(sorted, LAMBDA m : IsNewSubscriberMessage(m, my, pm, last))

(* Variant with a slip: the timestamp of the first fetched message. *)
NewestTimestamp_First(msgs) == msgs[1].sentAt

(* max(msg.get("sentAt", "") for msg in messages) *)
NewestTimestamp(msgs) == Max({msgs[i].sentAt : i \in 1..Len(msgs)})

(* self.last_message_timestamps[user_uuid] = newest_timestamp *)
SetTimestamp(lmt, u, ts) ==
    [x \in DOMAIN lmt \cup {u} |-> IF x = u THEN ts ELSE lmt[x]]

(* Variant with a slip: the id of the target is not recorded. *)
MarkProcessed_Forgets(pm, m) == pm

(* self.processed_messages.add(message_id) *)
MarkProcessed(pm, m) == pm \cup {m.uuid}

(* Variant with a slip: an empty fetch stamps the subscriber with the empty *)
(* timestamp instead of returning at once.                                  *)
CheckForUnansweredMessages_StampsEmpty(msgs, my, u, pm, lmt) ==
    LET unchanged == [unanswered |-> <<>>, processed |-> pm, timestamps |-> lmt]
        sorted == SortBySentAt(msgs)
        new == SortBySentAt(NewSubscriberMessages(sorted, my, pm,
                                                  LastProcessedTimestamp(lmt, u)))
    IN  IF msgs = <<>>
        THEN [unchanged EXCEPT !.timestamps = SetTimestamp(lmt, u, EmptyTs)]
        ELSE IF MostRecentIsOurs(sorted, my) THEN unchanged
        ELSE [unanswered |-> IF new = <<>> THEN <<>> ELSE <<Last(new)>>,
              processed  |-> IF new = <<>> THEN pm ELSE MarkProcessed(pm, Last(new)),
              timestamps |-> SetTimestamp(lmt, u, NewestTimestamp(msgs))]

(* Variant with a slip: the early return for a last message of ours comes   *)
(* after the update of the last seen timestamp.                             *)
CheckForUnansweredMessages_StampsOurs(msgs, my, u, pm, lmt) ==
    LET unchanged == [unanswered |-> <<>>, processed |-> pm, timestamps |-> lmt]
        sorted == SortBySentAt(msgs)
        new == SortBySentAt(NewSubscriberMessages(sorted, my, pm,
                                                  LastProcessedTimestamp(lmt, u)))
    IN  IF msgs = <<>> THEN unchanged
        ELSE IF MostRecentIsOurs(sorted, my)
             THEN [unchanged EXCEPT !.timestamps =
                                       SetTimestamp(lmt, u, NewestTimestamp(msgs))]
        ELSE [unanswered |-> IF new = <<>> THEN <<>> ELSE <<Last(new)>>,
              processed  |-> IF new = <<>> THEN pm ELSE MarkProcessed(pm, Last(new)),
              timestamps |-> SetTimestamp(lmt, u, NewestTimestamp(msgs))]

(* The whole call: what it returns and the state it leaves. *)
CheckForUnansweredMessages(msgs, my, u, pm, lmt) ==
    LET unchanged == [unanswered |-> <<>>, processed |-> pm, timestamps |-> lmt]
        sorted == SortBySentAt(msgs)
        new == SortBySentAt(NewSubscriberMessages(sorted, my, pm,
                                                  LastProcessedTimestamp(lmt, u)))
    IN  IF msgs = <<>> THEN unchanged
        ELSE IF MostRecentIsOurs(sorted, my) THEN unchanged
        ELSE [unanswered |-> IF new = <<>> THEN <<>> ELSE <<Last(new)>>,
              processed  |-> IF new = <<>> THEN pm ELSE MarkProcessed(pm, Last(new)),
              timestamps |-> SetTimestamp(lmt, u, NewestTimestamp(msgs))]

(* get_current_user: the account's user, or {} when the request fails. *)
CurrentUserUuids == {OperatorUuid, NoUuid}

-----------------------------------------------------------------------------
(* Persistence: save_state, load_state, cleanup_old_processed_messages *)

KeepProcessed == 1000

Range(seq) == {seq[i] : i \in 1..Len(seq)}

(* the ids of the model are the numbers 0..IdLimit *)
IdLimit == 1023

(* the ids of S, which lie in lo..hi, one after the other *)
RECURSIVE ListBetween(_, _, _)
ListBetween(S, lo, hi) ==
    IF S = {} THEN <<>>
    ELSE IF Cardinality(S) = 1 THEN <<CHOOSE y \in S : TRUE>>
    ELSE LET mid == (lo + hi) \div 2
         IN  ListBetween({y \in S : y <= mid}, lo, mid)
                 \o ListBetween({y \in S : y > mid}, mid + 1, hi)

(* list(self.processed_messages): the ids in the set's iteration order *)
ListOf(S) == ListBetween(S, 0, IdLimit)

(* Variant with a slip: the timestamps are not written. *)
SaveData_NoTimestamps(pm, lmt) ==
    [exists |-> TRUE, last_timestamps |-> [x \in {} |-> EmptyTs],
     processed_messages |-> ListOf(pm)]

(* the data dictionary json.dump writes *)
SaveData(pm, lmt) ==
    [exists |-> TRUE, last_timestamps |-> lmt, processed_messages |-> ListOf(pm)]

(* save_state: the file after the call; an error while writing is caught    *)
(* and leaves the file as it was.                                           *)
SaveState(file, pm, lmt, ok) == IF ok THEN SaveData(pm, lmt) ELSE file

NoTimestamps == [x \in {} |-> EmptyTs]

(* os.path.exists(self.state_file) is false *)
NoFile == [exists |-> FALSE, last_timestamps |-> NoTimestamps, processed_messages |-> <<>>]

(* load_state into a fresh object: nothing is read when no file exists *)
LoadedTimestamps(file) == IF ~file.exists THEN NoTimestamps ELSE file.last_timestamps
LoadedProcessed(file) == IF ~file.exists THEN {} ELSE Range(file.processed_messages)

(* the subsets of S with k elements *)
RECURSIVE SubsetsOfSize(_, _)
SubsetsOfSize(S, k) ==
    IF k = 0 THEN {{}}
    ELSE UNION {{D \cup {x} : D \in SubsetsOfSize({y \in S : y > x}, k - 1)} : x \in S}

(* cleanup_old_processed_messages: above 1000 ids, set(list(pm)[-1000:])    *)
(* keeps the 1000 ids that come last in the set's iteration order, which    *)
(* can be any 1000 of them.                                                 *)
CleanupResults(pm) ==
    IF Cardinality(pm) > KeepProcessed
    THEN {pm \ D : D \in SubsetsOfSize(pm, Cardinality(pm) - KeepProcessed)}
    ELSE {pm}

-----------------------------------------------------------------------------
(* The platform and the transport *)

ChatLimit == 20

SubscriberIndex(u) == CHOOSE i \in 1..Len(Subscribers) : Subscribers[i] = u

(* the platform's uuid of the k-th message of the i-th subscriber's chat *)
MsgUuid(i, k) == i + Len(Subscribers) * (k - 1)

Reverse(seq) == [i \in 1..Len(seq) |-> seq[Len(seq) + 1 - i]]

(* page 1 of the chat with limit=20: the latest 20 messages *)
LatestMessages(c) ==
    IF Len(c) > ChatLimit THEN SubSeq(c, Len(c) - ChatLimit + 1, Len(c)) ELSE c

(* get_chat_messages: the page in either order, or [] after an error *)
FetchResults(c) == {<<>>, LatestMessages(c), Reverse(LatestMessages(c))}

(* the number of messages in the chats of the subscribers in S *)
RECURSIVE TotalMessages(_, _)
TotalMessages(c, S) ==
    IF S = {} THEN 0
    ELSE LET u == CHOOSE x \in S : TRUE IN Len(c[u]) + TotalMessages(c, S \ {u})

(* the platform takes one more message *)
HasRoom == TotalMessages(conv, SubscriberUuids) < MaxMsgs

(* A subscriber writes into the chat.  The platform stamps the message with *)
(* its place in time; at is EmptyTs when the payload carries no sentAt.     *)
SubscriberSends(u, t, at) ==
    /\ HasRoom
    /\ conv' = [conv EXCEPT ![u] =
                  Append(@, Message(MsgUuid(SubscriberIndex(u), Len(@) + 1), u, t, at))]
    /\ UNCHANGED <<processed_messages, last_message_timestamps, state_file, pc, idx,
                   user_uuid, my_uuid, messages, unanswered_messages,
                   selected, reselected, generated, viewed>>
    /\ UNCHANGED monitor_vars
    /\ UNCHANGED <<manager_vars, subscribers_vars, generation_vars>>

-----------------------------------------------------------------------------
(* respond_to_messages: generate_response_with_llm and send_message *)

(* what the transport answers to one POST of send_message: success, HTTP    *)
(* 429, another HTTP error status, or an exception of the request itself    *)
Responses == {"ok", "429", "http error", "network error"}

MaxRetries == 3

(* Variant with a slip: every failure counts as a rate limit. *)
IsRateLimit_AnyError(r) == r # "ok"

(* e.response.status_code == 429 *)
IsRateLimit(r) == r = "429"

(* The while loop of send_message from retry_count on, rs[k] being the      *)
(* answer to the k-th POST: the answers it gets, the cooldowns it sleeps    *)
(* and what it returns.                                                     *)
RECURSIVE SendLoop(_, _)
SendLoop(rs, retry_count) ==
    IF retry_count >= MaxRetries
    THEN [responses |-> <<>>, cooldowns |-> 0, sent |-> FALSE]
    ELSE LET r == rs[retry_count + 1] IN
         IF r = "ok" THEN [responses |-> <<r>>, cooldowns |-> 0, sent |-> TRUE]
         ELSE IF IsRateLimit(r)
              THEN LET rest == SendLoop(rs, retry_count + 1)
                   IN  [responses |-> <<r>> \o rest.responses,
                        cooldowns |-> rest.cooldowns + 1,
                        sent      |-> rest.sent]
              ELSE [responses |-> <<r>>, cooldowns |-> 0, sent |-> FALSE]

(* Variant with a slip: a failed POST is repeated at once, whatever the     *)
(* failure, until the attempts are used up.                                 *)
SendMessage_RepeatsAll(rs) ==
    LET oks == {k \in 1..MaxRetries : rs[k] = "ok"}
        n == IF oks = {} THEN MaxRetries
             ELSE CHOOSE k \in oks : \A j \in oks : k <= j
    IN  [responses |-> SubSeq(rs, 1, n), cooldowns |-> 0, sent |-> oks # {}]

SendMessage(rs) == SendLoop(rs, 0)

(* send_message was not called *)
NotSent == [responses |-> <<>>, cooldowns |-> 0, sent |-> FALSE]

NoLlm == "None"            \* llm is None

(* db_manager.get_fanvue_account_by_id: the account, None, or an exception  *)
(* (the DatabaseManager of src/database.py has no such method, so with it   *)
(* the call raises AttributeError every time)                               *)
AccountReads == {"account", "none", "raises"}

(* the LLM backend: a text, an error of a request, status FAILED, or no     *)
(* COMPLETED status within max_wait_time                                    *)
Backends == {"text", "backend error", "failed", "timeout"}

LlmText == "llm"          \* the text the backend produced
GenericAck == "generic"   \* "Thank you for your message, ...! ..."

(* Variant with a slip: the error of the backend is not caught. *)
GenerateResponseWithLlm_Raises(read, backend) ==
    IF read # "raises" /\ backend = "text"
    THEN [raised |-> FALSE, text |-> LlmText]
    ELSE [raised |-> TRUE, text |-> ""]

(* generate_response_with_llm: without an account the cached settings are   *)
(* used; any exception of the try block gives the fixed acknowledgement.    *)
GenerateResponseWithLlm(read, backend) ==
    IF read = "raises" THEN [raised |-> FALSE, text |-> GenericAck]
    ELSE IF backend = "text" THEN [raised |-> FALSE, text |-> LlmText]
    ELSE [raised |-> FALSE, text |-> GenericAck]

(* what a call of generate_response_with_llm can come to: whether the       *)
(* generation failed, and what the call gave back                           *)
Generations ==
    {[failed |-> read = "raises" \/ backend # "text",
      reply  |-> GenerateResponseWithLlm(read, backend)] :
        read \in AccountReads, backend \in Backends}

(* what a call of send_message can come to *)
SendOutcomes == {SendMessage(rs) : rs \in [1..MaxRetries -> Responses]}

(* no respond_to_messages call to tell of *)
NoDispatch ==
    [target |-> 0, failed |-> FALSE, text |-> "", responses |-> <<>>,
     cooldowns |-> 0, sent |-> FALSE]

-----------------------------------------------------------------------------
(* The manager of all accounts (src/main.py, MultiAccountManager): values   *)

Accounts == <<"acc1", "acc2">>      \* ids of the accounts the source ever holds
AccountIds == {Accounts[i] : i \in 1..Len(Accounts)}
AccountIndex(a) == CHOOSE i \in 1..Len(Accounts) : Accounts[i] = a

TaskIds == 1..MaxTasks
NoTask == 0

(* a task id not yet handed out by asyncio.create_task *)
NoMonitor == [account |-> "", st |-> "none", cancel |-> FALSE, mem |-> 0,
              exit |-> "", unsaved |-> FALSE]

(* asyncio.create_task(self.monitor_account_continuously(account, ...)):    *)
(* the task is made and has not run yet.  st is where the task stands:      *)
(* "created", "cycle" (suspended in monitor_single_cycle), "sleep"          *)
(* (suspended in asyncio.sleep) or "done"; cancel: task.cancel() was called *)
(* and CancelledError is not delivered yet; mem: the state its responder    *)
(* holds, as the number of changes made to it (0 once the task is done);    *)
(* exit: how the task ended; unsaved: the file did not hold the state of    *)
(* the responder when the task began to end.                                *)
NewMonitor(a) == [account |-> a, st |-> "created", cancel |-> FALSE, mem |-> 0,
                  exit |-> "", unsaved |-> FALSE]

(* the manager after __init__, before run *)
InitManager ==
    /\ tasks = [t \in TaskIds |-> NoMonitor]
    /\ running_tasks = [a \in AccountIds |-> NoTask]
    /\ responders = [a \in AccountIds |-> NoTask]
    /\ saved_version = [a \in AccountIds |-> 0]
    /\ shutdown_event = FALSE
    /\ shutdown_pc = [i \in {"signal", "main"} |-> "none"]
    /\ gathered = [i \in {"signal", "main"} |-> {}]
    /\ main_pc = "load"
    /\ refresh_pc = "wait"
    /\ pool = "none"
    /\ current_account_ids = {}

(* no generation call is under way *)
InitGeneration ==
    /\ generation_pc = "idle"
    /\ account_llm = NoLlm
    /\ source_llm = NoLlm
    /\ backend_used = "none"
    /\ generation_result = ""
    /\ waited_time = 0
    /\ status = ""
    /\ polls = 0
    /\ submits = 0

(* no get_subscribers call is under way *)
InitSubscribers ==
    /\ page = 0
    /\ all_subscribers = <<>>
    /\ subscribers_pc = "idle"
    /\ pages = <<>>
    /\ requested = <<>>

-----------------------------------------------------------------------------
(* The responder process *)

(* the responder and its monitor after construction *)
InitResponder ==
    /\ processed_messages = {}
    /\ last_message_timestamps = NoTimestamps
    /\ state_file = NoFile
    /\ pc = "sleep"
    /\ idx = 0
    /\ user_uuid = NoUuid
    /\ my_uuid = NoUuid
    /\ messages = <<>>
    /\ unanswered_messages = <<>>
    /\ selected = {}
    /\ reselected = {}
    /\ generated = {}
    /\ viewed = {}
    /\ unanswered_message_count = 0
    /\ consecutive_errors = 0
    /\ dispatch = NoDispatch
    /\ subscriber_error = FALSE
    /\ failed_cycles = 0

Init ==
    /\ conv = [u \in SubscriberUuids |-> <<>>]
    /\ InitResponder
    /\ source = {}
    /\ InitManager
    /\ InitGeneration
    /\ InitSubscribers

(* monitor_single_cycle up to the loop: get_subscribers gives the list. *)
StartCycle ==
    /\ pc = "sleep"
    /\ pc' = "check"
    /\ idx' = 1
    /\ unanswered_message_count' = 0
    /\ subscriber_error' = FALSE
    /\ UNCHANGED <<conv, processed_messages, last_message_timestamps, state_file,
                   user_uuid, my_uuid, messages, unanswered_messages,
                   selected, reselected, generated, viewed,
                   consecutive_errors, dispatch, failed_cycles>>
    /\ UNCHANGED <<manager_vars, subscribers_vars, generation_vars>>

(* uuids of the messages of a list that the subscriber wrote *)
SubscriberUuidsOf(msgs) ==
    {msgs[i].uuid : i \in {j \in 1..Len(msgs) : msgs[j].sender # OperatorUuid}}

(* the record of one check_for_unanswered_messages call *)
Resolve(u, msgs, my) ==
    LET r == CheckForUnansweredMessages(msgs, my, u, processed_messages,
                                        last_message_timestamps)
    IN  /\ processed_messages' = r.processed
        /\ last_message_timestamps' = r.timestamps
        /\ user_uuid' = u
        /\ my_uuid' = my
        /\ messages' = msgs
        /\ unanswered_messages' = r.unanswered

(* what the call adds to the histories *)
Remember(msgs) ==
    LET target == {unanswered_messages'[i].uuid : i \in 1..Len(unanswered_messages')}
    IN  /\ selected' = selected \cup target
        /\ reselected' = reselected \cup (target \cap selected)
        /\ viewed' = IF msgs # <<>> /\ Last(SortBySentAt(msgs)).sender # OperatorUuid
                     THEN viewed \cup SubscriberUuidsOf(msgs) ELSE viewed

(* the loop of monitor_single_cycle moves on to the next subscriber *)
NextSubscriber ==
    IF idx < Len(Subscribers)
    THEN pc' = "check" /\ idx' = idx + 1
    ELSE pc' = "save" /\ idx' = 0

(* One loop iteration up to the call of respond_to_messages. *)
CheckSubscriber ==
    /\ pc = "check"
    /\ \E msgs \in FetchResults(conv[Subscribers[idx]]) :
         \E my \in IF msgs = <<>> THEN {NoUuid} ELSE CurrentUserUuids :
            /\ Resolve(Subscribers[idx], msgs, my)
            /\ Remember(msgs)
            /\ IF unanswered_messages' # <<>>
               THEN pc' = "respond" /\ idx' = idx
               ELSE NextSubscriber
    /\ unanswered_message_count' = unanswered_message_count + Len(unanswered_messages')
    /\ UNCHANGED <<conv, state_file, generated,
                   consecutive_errors, dispatch, subscriber_error, failed_cycles>>
    /\ UNCHANGED <<manager_vars, subscribers_vars, generation_vars>>

(* respond_to_messages for the one target: a reply is generated (the        *)
(* generator falls back to a fixed text) and handed to send_message, which  *)
(* posts it to the chat or gives up.  An exception of the generator would   *)
(* leave the call before send_message and end this subscriber's turn in the *)
(* cycle.  keep: the call is written down in dispatch.                      *)
Respond(keep) ==
    /\ pc = "respond"
    /\ \E g \in Generations, outcome \in SendOutcomes :
            LET u == Subscribers[idx]
                target == unanswered_messages[1].uuid
                reply == g.reply
                d == IF reply.raised THEN NotSent ELSE outcome
            IN  /\ generated' = IF reply.raised THEN generated
                                ELSE generated \cup {target}
                /\ IF d.sent
                   THEN /\ HasRoom
                        /\ conv' = [conv EXCEPT ![u] =
                                      Append(@, Message(MsgUuid(idx, Len(@) + 1),
                                                        OperatorUuid, "hi", Len(@) + 1))]
                   ELSE conv' = conv
                /\ dispatch' = IF keep
                               THEN [target |-> target,
                                     failed |-> g.failed,
                                     text |-> reply.text,
                                     responses |-> d.responses,
                                     cooldowns |-> d.cooldowns,
                                     sent |-> d.sent]
                               ELSE NoDispatch
    /\ NextSubscriber
    /\ UNCHANGED <<processed_messages, last_message_timestamps, state_file,
                   user_uuid, my_uuid, messages, unanswered_messages,
                   selected, reselected, viewed,
                   unanswered_message_count, consecutive_errors, subscriber_error,
                   failed_cycles>>
    /\ UNCHANGED <<manager_vars, subscribers_vars, generation_vars>>

RespondToMessages == Respond(FALSE)

(* the end of monitor_single_cycle: save_state and the return of the count; *)
(* the loop of monitor_account_continuously resets its error counter when   *)
(* the count is positive and goes to sleep.  The locals of the cycle are    *)
(* gone.                                                                    *)
EndCycle ==
    /\ pc = "save"
    /\ \E ok \in BOOLEAN :
         state_file' = SaveState(state_file, processed_messages,
                                 last_message_timestamps, ok)
    /\ pc' = "sleep"
    /\ user_uuid' = NoUuid
    /\ my_uuid' = NoUuid
    /\ messages' = <<>>
    /\ unanswered_messages' = <<>>
    /\ consecutive_errors' = IF unanswered_message_count > 0 THEN 0
                             ELSE consecutive_errors
    /\ unanswered_message_count' = 0
    /\ dispatch' = NoDispatch
    /\ failed_cycles' = 0
    /\ UNCHANGED <<conv, processed_messages, last_message_timestamps, idx,
                   selected, reselected, generated, viewed, subscriber_error>>
    /\ UNCHANGED <<manager_vars, subscribers_vars, generation_vars>>

(* the process is gone: nothing of the object is left *)
Stopped ==
    /\ pc' = "down"
    /\ idx' = 0
    /\ processed_messages' = {}
    /\ last_message_timestamps' = NoTimestamps
    /\ user_uuid' = NoUuid
    /\ my_uuid' = NoUuid
    /\ messages' = <<>>
    /\ unanswered_messages' = <<>>
    /\ unanswered_message_count' = 0
    /\ consecutive_errors' = 0
    /\ dispatch' = NoDispatch
    /\ subscriber_error' = FALSE
    /\ failed_cycles' = 0
    /\ UNCHANGED <<conv, selected, reselected, generated, viewed>>
    /\ UNCHANGED <<manager_vars, subscribers_vars, generation_vars>>

(* The process dies where it stands. *)
Crash ==
    /\ pc # "down"
    /\ Stopped
    /\ UNCHANGED state_file

(* The monitor task is cancelled: its finally block saves the state.  (A    *)
(* save that fails there leaves what Crash leaves.)                         *)
Cancel ==
    /\ pc # "down"
    /\ state_file' = SaveState(state_file, processed_messages,
                               last_message_timestamps, TRUE)
    /\ Stopped

(* __init__ of a new process: load_state, cleanup_old_processed_messages *)
Restart ==
    /\ pc = "down"
    /\ last_message_timestamps' = LoadedTimestamps(state_file)
    /\ processed_messages' \in CleanupResults(LoadedProcessed(state_file))
    /\ pc' = "sleep"
    /\ generated' = {}
    /\ viewed' = {}
    /\ UNCHANGED <<conv, state_file, idx, user_uuid, my_uuid, messages,
                   unanswered_messages, selected, reselected>>
    /\ UNCHANGED monitor_vars
    /\ UNCHANGED <<manager_vars, subscribers_vars, generation_vars>>

Next ==
    \/ \E u \in SubscriberUuids, t \in Texts :
         \E at \in {EmptyTs, Len(conv[u]) + 1} : SubscriberSends(u, t, at)
    \/ StartCycle
    \/ CheckSubscriber
    \/ RespondToMessages
    \/ EndCycle
    \/ Crash
    \/ Cancel
    \/ Restart

Spec == Init /\ [][Next]_vars

-----------------------------------------------------------------------------
(* The resolver alone, on whatever the transport returns *)

(* The fetched lists of up to MaxView messages of the chat with u.  uuids    *)
(* are opaque to the code, so the i-th fetched message is given uuid i.     *)
ViewMessages(u, i) ==
    [uuid : {i}, sender : {u}, text : Texts, sentAt : Timestamps]
        \cup [uuid : {i}, sender : {OperatorUuid}, text : {"hi"}, sentAt : Timestamps]

Views(u) ==
    UNION {{v \in [1..n -> UNION {ViewMessages(u, i) : i \in 1..n}] :
              \A i \in 1..n : v[i].uuid = i} : n \in 0..MaxView}

(* get_chat_messages and get_current_user of one call return *)
FetchAny ==
    /\ pc = "sleep"
    /\ \E u \in SubscriberUuids :
         \E msgs \in Views(u) :
            \E my \in IF msgs = <<>> THEN {NoUuid} ELSE CurrentUserUuids :
               /\ user_uuid' = u
               /\ messages' = msgs
               /\ my_uuid' = my
    /\ pc' = "fetched"
    /\ UNCHANGED <<conv, processed_messages, last_message_timestamps, state_file, idx,
                   unanswered_messages, selected, reselected, generated, viewed>>
    /\ UNCHANGED monitor_vars
    /\ UNCHANGED <<manager_vars, subscribers_vars, generation_vars>>

(* the rest of the call, on what was fetched; then the same call once more  *)
(* on the same, unchanged history                                           *)
ResolveFetched ==
    /\ pc \in {"fetched", "resolved"}
    /\ Resolve(user_uuid, messages, my_uuid)
    /\ pc' = IF pc = "fetched" THEN "resolved" ELSE "resolved again"
    /\ UNCHANGED <<conv, state_file, idx, selected, reselected, generated, viewed>>
    /\ UNCHANGED monitor_vars
    /\ UNCHANGED <<manager_vars, subscribers_vars, generation_vars>>

(* the caller is done with the result *)
Return ==
    /\ pc \in {"resolved", "resolved again"}
    /\ pc' = "sleep"
    /\ user_uuid' = NoUuid
    /\ my_uuid' = NoUuid
    /\ messages' = <<>>
    /\ unanswered_messages' = <<>>
    /\ UNCHANGED <<conv, processed_messages, last_message_timestamps, state_file, idx,
                   selected, reselected, generated, viewed>>
    /\ UNCHANGED monitor_vars
    /\ UNCHANGED <<manager_vars, subscribers_vars, generation_vars>>

NextResolve == FetchAny \/ ResolveFetched \/ Return

SpecResolve == Init /\ [][NextResolve]_vars

-----------------------------------------------------------------------------
(* A long-running responder: one subscriber keeps writing, and every cycle  *)
(* resolves the latest page of the chat.                                    *)

(* the latest ChatLimit of the n messages the subscriber u has written *)
LatestOf(u, n) ==
    LET first == IF n > ChatLimit THEN n - ChatLimit + 1 ELSE 1
    IN  [i \in 1..(n + 1 - first) |-> Message(first + i - 1, u, "hi", first + i - 1)]

ResolveLatest ==
    /\ Cardinality(processed_messages) <= KeepProcessed
    /\ LET n == Cardinality(processed_messages) + 1
       IN  Resolve(Subscribers[1], LatestOf(Subscribers[1], n), OperatorUuid)
    /\ UNCHANGED <<conv, state_file, pc, idx, selected, reselected, generated, viewed>>
    /\ UNCHANGED monitor_vars
    /\ UNCHANGED <<manager_vars, subscribers_vars, generation_vars>>

SpecGrowth == Init /\ [][ResolveLatest]_vars

-----------------------------------------------------------------------------
(* A dialogue: the chat with one subscriber grows message by message, each  *)
(* message stamped with its place in time, and the resolver is called on    *)
(* the whole chat whenever the poll comes round (the operator's uuid is     *)
(* known).                                                                  *)

(* the subscriber or the operator (by hand) writes into the chat *)
Says(s) ==
    /\ Len(conv[Subscribers[1]]) < MaxChat
    /\ conv' = [conv EXCEPT ![Subscribers[1]] =
                  Append(@, Message(MsgUuid(1, Len(@) + 1), s, "hi", Len(@) + 1))]
    /\ UNCHANGED <<processed_messages, last_message_timestamps, state_file, pc, idx,
                   user_uuid, my_uuid, messages, unanswered_messages,
                   selected, reselected, generated, viewed>>
    /\ UNCHANGED monitor_vars
    /\ UNCHANGED <<manager_vars, subscribers_vars, generation_vars>>

(* check_for_unanswered_messages on the chat as it is *)
ResolveChat ==
    /\ Resolve(Subscribers[1], conv[Subscribers[1]],
               IF conv[Subscribers[1]] = <<>> THEN NoUuid ELSE OperatorUuid)
    /\ UNCHANGED <<conv, state_file, pc, idx, selected, reselected, generated, viewed>>
    /\ UNCHANGED monitor_vars
    /\ UNCHANGED <<manager_vars, subscribers_vars, generation_vars>>

NextDialogue ==
    \/ \E s \in {Subscribers[1], OperatorUuid} : Says(s)
    \/ ResolveChat

SpecDialogue == Init /\ [][NextDialogue]_vars

-----------------------------------------------------------------------------
(* The monitor of one account: monitor_account_continuously around          *)
(* monitor_single_cycle, with the failures of a cycle and what each call of *)
(* respond_to_messages did.  The chats are there from the start.            *)

MaxConsecutiveErrors == 5

MaxFailedCycles == 5      \* failed cycles in a row that are followed

(* the chat with the i-th subscriber: empty, or one message of theirs *)
ChatsAtStart(i) == {<<>>, <<Message(MsgUuid(i, 1), Subscribers[i], "hi", 1)>>}

InitMonitor ==
    /\ conv \in {c \in [SubscriberUuids -> UNION {ChatsAtStart(i) : i \in 1..Len(Subscribers)}] :
                    \A i \in 1..Len(Subscribers) : c[Subscribers[i]] \in ChatsAtStart(i)}
    /\ InitResponder
    /\ source = {}
    /\ InitManager
    /\ InitGeneration
    /\ InitSubscribers

(* get_subscribers gave [] (no subscriber, or an error it caught): the      *)
(* cycle returns 0 without saving, and the loop leaves its counter alone.   *)
NoSubscribers ==
    /\ pc = "sleep"
    /\ failed_cycles' = 0
    /\ UNCHANGED <<conv, processed_messages, last_message_timestamps, state_file, pc,
                   idx, user_uuid, my_uuid, messages, unanswered_messages,
                   selected, reselected, generated, viewed,
                   unanswered_message_count, consecutive_errors, dispatch,
                   subscriber_error>>
    /\ UNCHANGED <<manager_vars, subscribers_vars, generation_vars>>

(* the variant of the handler below that gives the cycle up *)
AfterSubscriberError_EndsLoop == pc' = "save" /\ idx' = 0

(* except Exception of the loop body of monitor_single_cycle: print, continue *)
AfterSubscriberError == NextSubscriber

(* check_for_unanswered_messages or respond_to_messages raises for the      *)
(* subscriber at hand, before anything of the state was touched.            *)
SubscriberException ==
    /\ pc = "check"
    /\ subscriber_error' = TRUE
    /\ user_uuid' = Subscribers[idx]
    /\ my_uuid' = NoUuid
    /\ messages' = <<>>
    /\ unanswered_messages' = <<>>
    /\ AfterSubscriberError
    /\ UNCHANGED <<conv, processed_messages, last_message_timestamps, state_file,
                   selected, reselected, generated, viewed,
                   unanswered_message_count, consecutive_errors, dispatch,
                   failed_cycles>>
    /\ UNCHANGED <<manager_vars, subscribers_vars, generation_vars>>

RespondToMessagesTold == Respond(TRUE)

(* Variant with a slip: the exception of a cycle reaches the loop of the    *)
(* monitor, whose handler counts it.                                        *)
ErrorsAfterCycleException_Counted(errors) == errors + 1

(* except Exception of monitor_single_cycle: print, return 0; the loop of   *)
(* the monitor gets a number and leaves consecutive_errors as it is         *)
ErrorsAfterCycleException(errors) == errors

(* An exception outside the loop body of monitor_single_cycle, before the   *)
(* loop or between two subscribers: the outer handler prints it and returns *)
(* 0, save_state is not reached, and the loop of the monitor sees a cycle   *)
(* without messages.                                                        *)
CycleException ==
    /\ pc \in {"sleep", "check"}
    /\ failed_cycles < MaxFailedCycles
    /\ failed_cycles' = failed_cycles + 1
    /\ pc' = "sleep"
    /\ idx' = 0
    /\ user_uuid' = NoUuid
    /\ my_uuid' = NoUuid
    /\ messages' = <<>>
    /\ unanswered_messages' = <<>>
    /\ unanswered_message_count' = 0
    /\ dispatch' = NoDispatch
    /\ consecutive_errors' = ErrorsAfterCycleException(consecutive_errors)
    /\ UNCHANGED <<conv, processed_messages, last_message_timestamps, state_file,
                   selected, reselected, generated, viewed, subscriber_error>>
    /\ UNCHANGED <<manager_vars, subscribers_vars, generation_vars>>

(* An exception reaches the handler of the loop of                          *)
(* monitor_account_continuously (a print or the sleep of the loop body      *)
(* raises): the counter goes up, and at max_consecutive_errors the loop     *)
(* breaks, the finally block saves the state and the monitor is gone.       *)
LoopException ==
    /\ pc = "sleep"
    /\ consecutive_errors' = consecutive_errors + 1
    /\ failed_cycles' = failed_cycles + 1
    /\ IF consecutive_errors' >= MaxConsecutiveErrors
       THEN /\ pc' = "stopped"
            /\ \E ok \in BOOLEAN :
                 state_file' = SaveState(state_file, processed_messages,
                                         last_message_timestamps, ok)
       ELSE /\ pc' = "sleep"
            /\ state_file' = state_file
    /\ UNCHANGED <<conv, processed_messages, last_message_timestamps, idx,
                   user_uuid, my_uuid, messages, unanswered_messages,
                   selected, reselected, generated, viewed,
                   unanswered_message_count, dispatch, subscriber_error>>
    /\ UNCHANGED <<manager_vars, subscribers_vars, generation_vars>>

NextMonitor ==
    \/ NoSubscribers
    \/ StartCycle
    \/ CheckSubscriber
    \/ SubscriberException
    \/ RespondToMessagesTold
    \/ EndCycle
    \/ CycleException
    \/ LoopException

SpecMonitor == InitMonitor /\ [][NextMonitor]_vars

-----------------------------------------------------------------------------
(* The manager of all accounts: run, start_monitoring_all_accounts,         *)
(* periodic_account_refresh, shutdown and the monitor tasks.  Every action  *)
(* is what one coroutine does between two suspension points.                *)

responder_vars == <<conv, processed_messages, last_message_timestamps, state_file,
                    pc, idx, user_uuid, my_uuid, messages, unanswered_messages,
                    selected, reselected, generated, viewed>>

(* asyncio.run has not returned *)
LoopRuns == main_pc # "done"

(* the task has been made and has not finished *)
Live(t) == tasks[t].st \in {"created", "cycle", "sleep"}

(* the task has begun to run monitor_account_continuously and has not       *)
(* finished                                                                 *)
Started(t) == tasks[t].st \in {"cycle", "sleep"}

FreeTasks(ts) == {t \in TaskIds : ts[t].st = "none"}

(* the task made for account a when tasks are made for the accounts S, in   *)
(* the order of the list of accounts                                        *)
NewTask(ts, S, a) ==
    LET k == Cardinality({b \in S : AccountIndex(b) <= AccountIndex(a)})
    IN  CHOOSE t \in FreeTasks(ts) : Cardinality({f \in FreeTasks(ts) : f <= t}) = k

(* asyncio.create_task for every account of S *)
Spawn(ts, S) ==
    [t \in TaskIds |->
        IF \E a \in S : NewTask(ts, S, a) = t
        THEN NewMonitor(CHOOSE a \in S : NewTask(ts, S, a) = t)
        ELSE ts[t]]

(* task.cancel() for every task of C; a finished task is left as it is *)
CancelTasks(ts, C) ==
    [t \in TaskIds |->
        IF t \in C /\ ts[t].st \in {"created", "cycle", "sleep"}
        THEN [ts[t] EXCEPT !.cancel = TRUE] ELSE ts[t]]

(* load_accounts_from_database: the accounts of the source, or [] after an  *)
(* error (no connection, a failed query, a pool that is closed)             *)
LoadOutcomes == IF pool = "closed" THEN {"failed"} ELSE {"accounts", "failed"}
LoadedAccounts(outcome) == IF outcome = "accounts" THEN source ELSE {}
PoolAfterLoad(outcome) == IF outcome = "accounts" THEN "open" ELSE pool

(* accounts appear in the source and expire; what the source holds is seen  *)
(* only by a load, so it is followed while one is under way                 *)
SourceChanges ==
    /\ LoopRuns
    /\ main_pc = "load" \/ refresh_pc = "load"
    /\ \E S \in SUBSET AccountIds : S # source /\ source' = S
    /\ UNCHANGED <<tasks, running_tasks, responders, saved_version, shutdown_event,
                   shutdown_pc, gathered, main_pc, refresh_pc, pool>>
    /\ UNCHANGED <<responder_vars, monitor_vars, subscribers_vars, generation_vars,
                   current_account_ids>>

(* Variant with a slip: an empty list of accounts is not looked for. *)
NoAccounts_Never(accounts) == FALSE

(* if not accounts: return *)
NoAccounts(accounts) == accounts = {}

(* start_monitoring_all_accounts when the accounts are loaded: without      *)
(* accounts it returns and run cancels the refresh task; otherwise a        *)
(* monitor task is made for every account.                                  *)
StartMonitoringAllAccounts ==
    /\ main_pc = "load"
    /\ \E outcome \in LoadOutcomes :
         LET accounts == LoadedAccounts(outcome) IN
         /\ pool' = PoolAfterLoad(outcome)
         /\ IF NoAccounts(accounts)
            THEN /\ main_pc' = "done"
                 /\ refresh_pc' = "done"
                 /\ UNCHANGED <<tasks, running_tasks>>
            ELSE /\ tasks' = Spawn(tasks, accounts)
                 /\ running_tasks' = [a \in AccountIds |->
                                        IF a \in accounts THEN NewTask(tasks, accounts, a)
                                        ELSE running_tasks[a]]
                 /\ main_pc' = "wait"
                 /\ UNCHANGED refresh_pc
    /\ UNCHANGED <<source, responders, saved_version, shutdown_event, shutdown_pc,
                   gathered>>
    /\ UNCHANGED <<responder_vars, monitor_vars, subscribers_vars, generation_vars,
                   current_account_ids>>

(* SIGINT or SIGTERM: _signal_handler makes a task of shutdown *)
Signal ==
    /\ LoopRuns
    /\ shutdown_pc["signal"] = "none"
    /\ shutdown_pc' = [shutdown_pc EXCEPT !["signal"] = "start"]
    /\ UNCHANGED <<source, tasks, running_tasks, responders, saved_version,
                   shutdown_event, gathered, main_pc, refresh_pc, pool>>
    /\ UNCHANGED <<responder_vars, monitor_vars, subscribers_vars, generation_vars,
                   current_account_ids>>

(* for account_id, responder in self.responders.items(): save_state *)
SaveAll ==
    saved_version' = [a \in AccountIds |->
                        IF responders[a] # NoTask THEN tasks[responders[a]].mem
                        ELSE saved_version[a]]

(* shutdown up to its first suspension: the event is set and every task of  *)
(* running_tasks is cancelled; with tasks it waits in gather, without it    *)
(* saves and goes on to close the pool.                                     *)
ShutdownBegins(i) ==
    LET C == {running_tasks[a] : a \in AccountIds} \ {NoTask} IN
    /\ shutdown_event' = TRUE
    /\ tasks' = CancelTasks(tasks, C)
    /\ IF C = {}
       THEN /\ SaveAll
            /\ shutdown_pc' = [shutdown_pc EXCEPT ![i] = "close"]
            /\ UNCHANGED gathered
       ELSE /\ gathered' = [gathered EXCEPT ![i] = C]
            /\ shutdown_pc' = [shutdown_pc EXCEPT ![i] = "gather"]
            /\ UNCHANGED saved_version
    /\ UNCHANGED <<source, running_tasks, responders, refresh_pc, pool>>
    /\ UNCHANGED <<responder_vars, monitor_vars, subscribers_vars, generation_vars,
                   current_account_ids>>

(* the task of the signal handler runs *)
ShutdownBySignal ==
    /\ LoopRuns
    /\ shutdown_pc["signal"] = "start"
    /\ ShutdownBegins("signal")
    /\ UNCHANGED main_pc

(* start_monitoring_all_accounts: shutdown_event.wait() returns, then       *)
(* await self.shutdown()                                                    *)
ShutdownByMain ==
    /\ main_pc = "wait"
    /\ shutdown_event
    /\ ShutdownBegins("main")
    /\ main_pc' = "shutdown"

(* Variant with a slip: gather does not wait for the tasks. *)
GatherDone_NoWait(S) == TRUE

(* asyncio.gather of the tasks is done when all of them are *)
GatherDone(S) == \A t \in S : tasks[t].st = "done"

(* gather returns: the states of the responders still held are saved, and   *)
(* shutdown goes on to close the pool                                       *)
GatherReturns(i) ==
    /\ LoopRuns
    /\ shutdown_pc[i] = "gather"
    /\ GatherDone(gathered[i])
    /\ SaveAll
    /\ shutdown_pc' = [shutdown_pc EXCEPT ![i] = "close"]
    /\ UNCHANGED <<source, tasks, running_tasks, responders, shutdown_event,
                   gathered, main_pc, refresh_pc, pool>>
    /\ UNCHANGED <<responder_vars, monitor_vars, subscribers_vars, generation_vars,
                   current_account_ids>>

(* db_manager.close() returns and with it shutdown; after the shutdown of   *)
(* start_monitoring_all_accounts, run cancels the refresh task and returns. *)
CloseReturns(i) ==
    /\ LoopRuns
    /\ shutdown_pc[i] = "close"
    /\ pool' = IF pool = "open" THEN "closed" ELSE pool
    /\ shutdown_pc' = [shutdown_pc EXCEPT ![i] = "done"]
    /\ IF i = "main"
       THEN main_pc' = "done" /\ refresh_pc' = "done"
       ELSE UNCHANGED <<main_pc, refresh_pc>>
    /\ UNCHANGED <<source, tasks, running_tasks, responders, saved_version,
                   shutdown_event, gathered>>
    /\ UNCHANGED <<responder_vars, monitor_vars, subscribers_vars, generation_vars,
                   current_account_ids>>

(* periodic_account_refresh: wait_for(shutdown_event.wait(), timeout=300)   *)
(* times out.  The accounts of start-up are loaded long before: the pool is *)
(* made with a connection timeout of 60 s and command_timeout=60.  A task   *)
(* made with create_task takes its first step in the next iteration of the  *)
(* event loop, so none is waiting for it when 300 s have passed.            *)
RefreshTimeout ==
    /\ LoopRuns
    /\ refresh_pc = "wait"
    /\ ~shutdown_event
    /\ main_pc # "load"
    /\ \A t \in TaskIds : tasks[t].st # "created"
    /\ refresh_pc' = "load"
    /\ UNCHANGED <<source, tasks, running_tasks, responders, saved_version,
                   shutdown_event, shutdown_pc, gathered, main_pc, pool>>
    /\ UNCHANGED <<responder_vars, monitor_vars, subscribers_vars, generation_vars,
                   current_account_ids>>

(* ... or the event is set: break *)
RefreshBreak ==
    /\ LoopRuns
    /\ refresh_pc = "wait"
    /\ shutdown_event
    /\ refresh_pc' = "done"
    /\ UNCHANGED <<source, tasks, running_tasks, responders, saved_version,
                   shutdown_event, shutdown_pc, gathered, main_pc, pool>>
    /\ UNCHANGED <<responder_vars, monitor_vars, subscribers_vars, generation_vars,
                   current_account_ids>>

(* Variant with a slip: every loaded account counts as new. *)
NewAccountIds_All(current, running) == current

(* new_account_ids = current_account_ids - running_account_ids *)
NewAccountIds(current, running) == current \ running

(* removed_account_ids = running_account_ids - current_account_ids *)
RemovedAccountIds(current, running) == running \ current

(* One pass of periodic_account_refresh, from the return of                 *)
(* load_accounts_from_database to the top of the loop.                      *)
PeriodicAccountRefresh ==
    /\ LoopRuns
    /\ refresh_pc = "load"
    /\ \E outcome \in LoadOutcomes :
         LET running_account_ids == {a \in AccountIds : running_tasks[a] # NoTask}
             new_account_ids == NewAccountIds(current_account_ids', running_account_ids)
             removed_account_ids ==
                 RemovedAccountIds(current_account_ids', running_account_ids)
         IN  /\ current_account_ids' = LoadedAccounts(outcome)
             /\ Cardinality(new_account_ids) <= Cardinality(FreeTasks(tasks))
             /\ pool' = PoolAfterLoad(outcome)
             /\ tasks' = CancelTasks(Spawn(tasks, new_account_ids),
                                     {running_tasks[a] : a \in removed_account_ids})
             /\ running_tasks' = [a \in AccountIds |->
                                    IF a \in new_account_ids
                                    THEN NewTask(tasks, new_account_ids, a)
                                    ELSE running_tasks[a]]
    /\ refresh_pc' = IF shutdown_event THEN "done" ELSE "wait"
    /\ UNCHANGED <<source, responders, saved_version, shutdown_event, shutdown_pc,
                   gathered, main_pc>>
    /\ UNCHANGED <<responder_vars, monitor_vars, subscribers_vars, generation_vars>>

(* Variant with a slip: the cleanup leaves the entry of running_tasks. *)
RunningTasksAfter_Kept(a) == running_tasks

(* Variant with a slip: the cleanup empties running_tasks. *)
RunningTasksAfter_Cleared(a) == [b \in AccountIds |-> NoTask]

(* if account.id in self.running_tasks: del self.running_tasks[account.id] *)
RunningTasksAfter(a) == [running_tasks EXCEPT ![a] = NoTask]

(* Variant with a slip: the finally block does not save. *)
SaveHeld_Skipped(a, t, mem) == saved_version

(* if account.id in self.responders: self.responders[account.id].save_state() *)
(* in the task t whose responder holds mem: the files after it              *)
SaveHeld(a, t, mem) ==
    IF responders[a] = NoTask THEN saved_version
    ELSE [saved_version EXCEPT ![a] = IF responders[a] = t THEN mem
                                      ELSE tasks[responders[a]].mem]

(* The finally block of monitor_account_continuously for the task t with    *)
(* the state mem: the responder held for the account is saved and dropped,  *)
(* and the entry of running_tasks is dropped.                               *)
Finally(t, mem, how) ==
    LET a == tasks[t].account
    IN  /\ saved_version' = SaveHeld(a, t, mem)
        /\ responders' = [responders EXCEPT ![a] = NoTask]
        /\ running_tasks' = RunningTasksAfter(a)
        /\ tasks' = [tasks EXCEPT ![t] = [@ EXCEPT !.st = "done", !.cancel = FALSE,
                                                   !.mem = 0, !.exit = how,
                                                   !.unsaved = mem # saved_version[a]]]

(* Variant with a slip: the loop does not look at the event. *)
LoopGoesOn_Always == TRUE

(* while not self.shutdown_event.is_set() *)
LoopGoesOn == ~shutdown_event

(* The first step of a monitor task.  A task cancelled before it never runs *)
(* its coroutine.  Otherwise the responder is made, which loads the saved   *)
(* state; when that fails the coroutine returns, and the entry of           *)
(* running_tasks stays.  Then the loop: the first cycle begins, or the      *)
(* event is set and the finally block runs at once.                         *)
MonitorStarts(t) ==
    /\ LoopRuns
    /\ tasks[t].st = "created"
    /\ LET a == tasks[t].account IN
       IF tasks[t].cancel
       THEN /\ tasks' = [tasks EXCEPT ![t] = [@ EXCEPT !.st = "done", !.cancel = FALSE,
                                                       !.exit = "never ran"]]
            /\ UNCHANGED <<running_tasks, responders, saved_version>>
       ELSE \E made \in BOOLEAN :
              IF ~made
              THEN /\ tasks' = [tasks EXCEPT ![t] = [@ EXCEPT !.st = "done",
                                                              !.exit = "no responder"]]
                   /\ UNCHANGED <<running_tasks, responders, saved_version>>
              ELSE IF LoopGoesOn
                   THEN /\ tasks' = [tasks EXCEPT ![t] = [@ EXCEPT !.st = "cycle",
                                                                   !.mem = saved_version[a]]]
                        /\ responders' = [responders EXCEPT ![a] = t]
                        /\ UNCHANGED <<running_tasks, saved_version>>
                   ELSE /\ tasks' = [tasks EXCEPT ![t] = [@ EXCEPT !.st = "done",
                                                                   !.exit = "shutdown"]]
                        /\ responders' = [responders EXCEPT ![a] = NoTask]
                        /\ running_tasks' = RunningTasksAfter(a)
                        /\ UNCHANGED saved_version
    /\ UNCHANGED <<source, shutdown_event, shutdown_pc, gathered, main_pc, refresh_pc,
                   pool>>
    /\ UNCHANGED <<responder_vars, monitor_vars, subscribers_vars, generation_vars,
                   current_account_ids>>

(* In a cycle a resolution changes the state the responder holds. *)
Resolution(t) ==
    /\ LoopRuns
    /\ tasks[t].st = "cycle"
    /\ ~tasks[t].cancel
    /\ tasks[t].mem < MaxChanges
    /\ tasks' = [tasks EXCEPT ![t] = [@ EXCEPT !.mem = @ + 1]]
    /\ UNCHANGED <<source, running_tasks, responders, saved_version, shutdown_event,
                   shutdown_pc, gathered, main_pc, refresh_pc, pool>>
    /\ UNCHANGED <<responder_vars, monitor_vars, subscribers_vars, generation_vars,
                   current_account_ids>>

(* monitor_single_cycle saves the state and returns; the task sleeps. *)
CycleReturns(t) ==
    /\ LoopRuns
    /\ tasks[t].st = "cycle"
    /\ ~tasks[t].cancel
    /\ saved_version' = [saved_version EXCEPT ![tasks[t].account] = tasks[t].mem]
    /\ tasks' = [tasks EXCEPT ![t] = [@ EXCEPT !.st = "sleep"]]
    /\ UNCHANGED <<source, running_tasks, responders, shutdown_event,
                   shutdown_pc, gathered, main_pc, refresh_pc, pool>>
    /\ UNCHANGED <<responder_vars, monitor_vars, subscribers_vars, generation_vars,
                   current_account_ids>>

(* asyncio.sleep(polling_interval) returns: the top of the loop *)
NextCycle(t) ==
    /\ LoopRuns
    /\ tasks[t].st = "sleep"
    /\ ~tasks[t].cancel
    /\ IF LoopGoesOn
       THEN /\ tasks' = [tasks EXCEPT ![t] = [@ EXCEPT !.st = "cycle"]]
            /\ UNCHANGED <<running_tasks, responders, saved_version>>
       ELSE Finally(t, tasks[t].mem, "shutdown")
    /\ UNCHANGED <<source, shutdown_event, shutdown_pc, gathered, main_pc, refresh_pc,
                   pool>>
    /\ UNCHANGED <<responder_vars, monitor_vars, subscribers_vars, generation_vars,
                   current_account_ids>>

(* The monitor stops by itself: max_consecutive_errors is reached (break),  *)
(* or an exception leaves the loop (except Exception: "Fatal error").       *)
MonitorStops(t) ==
    /\ LoopRuns
    /\ tasks[t].st \in {"cycle", "sleep"}
    /\ ~tasks[t].cancel
    /\ Finally(t, tasks[t].mem, "stopped")
    /\ UNCHANGED <<source, shutdown_event, shutdown_pc, gathered, main_pc, refresh_pc,
                   pool>>
    /\ UNCHANGED <<responder_vars, monitor_vars, subscribers_vars, generation_vars,
                   current_account_ids>>

(* CancelledError is raised at the suspension point of the task: except     *)
(* asyncio.CancelledError, then the finally block.                          *)
MonitorCancelled(t) ==
    /\ LoopRuns
    /\ tasks[t].st \in {"cycle", "sleep"}
    /\ tasks[t].cancel
    /\ Finally(t, tasks[t].mem,
               IF tasks[t].st = "cycle" THEN "cancelled in cycle" ELSE "cancelled in sleep")
    /\ UNCHANGED <<source, shutdown_event, shutdown_pc, gathered, main_pc, refresh_pc,
                   pool>>
    /\ UNCHANGED <<responder_vars, monitor_vars, subscribers_vars, generation_vars,
                   current_account_ids>>

InitFleet ==
    /\ conv = [u \in SubscriberUuids |-> <<>>]
    /\ InitResponder
    /\ source \in SUBSET AccountIds
    /\ InitManager
    /\ InitGeneration
    /\ InitSubscribers

NextFleet ==
    \/ SourceChanges
    \/ StartMonitoringAllAccounts
    \/ Signal
    \/ ShutdownBySignal
    \/ ShutdownByMain
    \/ \E i \in {"signal", "main"} : GatherReturns(i)
    \/ \E i \in {"signal", "main"} : CloseReturns(i)
    \/ RefreshTimeout
    \/ RefreshBreak
    \/ PeriodicAccountRefresh
    \/ \E t \in TaskIds : MonitorStarts(t)
    \/ \E t \in TaskIds : Resolution(t)
    \/ \E t \in TaskIds : CycleReturns(t)
    \/ \E t \in TaskIds : NextCycle(t)
    \/ \E t \in TaskIds : MonitorStops(t)
    \/ \E t \in TaskIds : MonitorCancelled(t)

SpecFleet == InitFleet /\ [][NextFleet]_vars

-----------------------------------------------------------------------------
(* Vocabulary of the properties *)

(* positions of the entries of a list with the greatest sentAt *)
NewestPositions(msgs) ==
    {i \in 1..Len(msgs) : \A j \in 1..Len(msgs) : msgs[j].sentAt <= msgs[i].sentAt}

(* the chronologically last message: greatest sentAt, and of several with   *)
(* that sentAt the one fetched last                                         *)
ChronologicallyLast(msgs) ==
    msgs[CHOOSE i \in NewestPositions(msgs) : \A j \in NewestPositions(msgs) : j <= i]

(* a step in which check_for_unanswered_messages runs to its return *)
ResolveStep ==
    /\ pc \in {"fetched", "resolved"}
    /\ pc' \in {"resolved", "resolved again"}

Resolved == pc \in {"resolved", "resolved again"}

(* what load_state would read from the file is what the object holds *)
Persisted ==
    /\ LoadedProcessed(state_file) = processed_messages
    /\ LoadedTimestamps(state_file) = last_message_timestamps

(* a polling cycle ends in this step after its loop over the subscribers *)
CycleCompletes == pc = "save" /\ pc' = "sleep"

(* a respond_to_messages call returns in this step and is told in dispatch' *)
Responded == pc = "respond" /\ pc' # "respond" /\ dispatch' # NoDispatch

(* the place of the message with uuid id in the chat c, 0 when it has none *)
PlaceOf(c, id) ==
    IF \E p \in 1..Len(c) : c[p].uuid = id
    THEN CHOOSE p \in 1..Len(c) : c[p].uuid = id ELSE 0

(* the conversation turn the message at place p of c belongs to or answers: *)
(* the number of times the word went from the operator to the subscriber    *)
TurnOf(c, p) ==
    Cardinality({q \in 1..(p - 1) : c[q].sender = OperatorUuid
                                      /\ c[q + 1].sender # OperatorUuid})

-----------------------------------------------------------------------------
(* Properties *)

(* C1: at most one reply is generated and dispatched per conversation turn: *)
(* no two reply targets of a run of the responder belong to (or answer) the *)
(* same turn of a chat.                                                     *)
C1_OneReplyPerTurn ==
    \A u \in SubscriberUuids :
       \A a, b \in generated :
          (a # b /\ PlaceOf(conv[u], a) > 0 /\ PlaceOf(conv[u], b) > 0)
             => TurnOf(conv[u], PlaceOf(conv[u], a)) # TurnOf(conv[u], PlaceOf(conv[u], b))

(* C2: across polling cycles, crashes and restarts no message is selected   *)
(* as the reply target by check_for_unanswered_messages more than once.     *)
C2_NeverSelectedTwice == reselected = {}

(* C3: idempotence of resolution: the second of two successive calls on the *)
(* same unchanged history returns no target (stated for the calls that know *)
(* the operator's uuid).                                                    *)
C3_SecondCallNoTarget ==
    (pc = "resolved again" /\ my_uuid = OperatorUuid) => unanswered_messages = <<>>

C5_ProcessedNeverReturned ==
    [][ResolveStep =>
          /\ processed_messages \subseteq processed_messages'
          /\ \A i \in 1..Len(unanswered_messages') :
                unanswered_messages'[i].uuid \notin processed_messages]_vars

(* C5's case: a target was returned although a newer message of the         *)
(* subscriber, with text, was in the history: one that was processed before.*)
C5_Witness ==
    /\ pc = "resolved"
    /\ unanswered_messages # <<>>
    /\ \E i \in 1..Len(messages) :
          /\ messages[i].uuid \in processed_messages
          /\ messages[i].uuid # unanswered_messages[1].uuid
          /\ messages[i].sender = user_uuid
          /\ messages[i].text = "hi"
          /\ messages[i].sentAt > unanswered_messages[1].sentAt

(* C6: last_message_timestamps[subscriber] never decreases across           *)
(* successive calls, whatever lists the transport returns (stated for the   *)
(* calls that know the operator's uuid).                                    *)
C6_TimestampNeverDecreases ==
    [][my_uuid = OperatorUuid =>
       \A u \in DOMAIN last_message_timestamps :
          /\ u \in DOMAIN last_message_timestamps'
          /\ last_message_timestamps'[u] >= last_message_timestamps[u]]_vars

(* C7: processed_messages never holds more than 1000 ids while a monitor    *)
(* runs.                                                                    *)
C7_ProcessedBounded == Cardinality(processed_messages) <= KeepProcessed

(* the positions of the history a call must consider by the selection rule: *)
(* not the operator's, text not empty (after stripping), id not processed,  *)
(* timestamp strictly greater than the last seen one (none: every timestamp *)
(* is greater)                                                              *)
Collectable(msgs, my, u, pm, lmt) ==
    {i \in 1..Len(msgs) :
        /\ msgs[i].sender # my
        /\ Strip(msgs[i].text) # ""
        /\ msgs[i].uuid \notin pm
        /\ (u \in DOMAIN lmt => msgs[i].sentAt > lmt[u])}

(* C8: selection rule: when the chronologically last message is not the     *)
(* operator's, there is a target exactly when some message is collectable,  *)
(* the target is a collectable message with the greatest timestamp among    *)
(* them, and no call returns more than one target (stated for the calls     *)
(* that know the operator's uuid).                                          *)
C8_SelectionRule ==
    [][(ResolveStep /\ messages # <<>> /\ my_uuid = OperatorUuid
          /\ ChronologicallyLast(messages).sender # my_uuid) =>
          LET c == Collectable(messages, my_uuid, user_uuid, processed_messages,
                               last_message_timestamps)
          IN  /\ Len(unanswered_messages') <= 1
              /\ (unanswered_messages' = <<>>) <=> (c = {})
              /\ unanswered_messages' # <<>> =>
                    \E i \in c : /\ messages[i] = unanswered_messages'[1]
                                 /\ \A j \in c : messages[j].sentAt <= messages[i].sentAt]_vars

(* C9: a call that selects a target adds exactly the target's id to         *)
(* processed_messages, sets the subscriber's last seen timestamp to the     *)
(* greatest sentAt of the whole fetched list, and leaves the timestamps of  *)
(* the other subscribers as they were.                                      *)
C9_UpdateOfSelection ==
    [][(ResolveStep /\ unanswered_messages' # <<>>) =>
          /\ processed_messages' = processed_messages \cup {unanswered_messages'[1].uuid}
          /\ unanswered_messages'[1].uuid \notin processed_messages
          /\ DOMAIN last_message_timestamps' = DOMAIN last_message_timestamps \cup {user_uuid}
          /\ \A i \in 1..Len(messages) :
                messages[i].sentAt <= last_message_timestamps'[user_uuid]
          /\ \E i \in 1..Len(messages) :
                messages[i].sentAt = last_message_timestamps'[user_uuid]
          /\ \A v \in DOMAIN last_message_timestamps \ {user_uuid} :
                last_message_timestamps'[v] = last_message_timestamps[v]]_vars

(* C9's case: a target was selected from a list in which another message is *)
(* newer than the target, so that the new last seen timestamp is not the    *)
(* target's, while another subscriber has a last seen timestamp.            *)
C9_Witness ==
    /\ pc = "resolved"
    /\ unanswered_messages # <<>>
    /\ my_uuid = OperatorUuid
    /\ \E i \in 1..Len(messages) : messages[i].sentAt > unanswered_messages[1].sentAt
    /\ last_message_timestamps[user_uuid] > unanswered_messages[1].sentAt
    /\ \E v \in DOMAIN last_message_timestamps :
          v # user_uuid /\ last_message_timestamps[v] # EmptyTs

(* C10: once a resolution has run over a view whose last message is the     *)
(* subscriber's, no subscriber message of that view is selected as target   *)
(* by a later resolution of the same run.                                   *)
C10_SeenNeverSelected ==
    [][CheckSubscriber =>
          \A i \in 1..Len(unanswered_messages') :
             unanswered_messages'[i].uuid \notin viewed]_vars


(* the three histories of the scenario: the subscriber's "hi" at 10:00, the *)
(* operator's "hello" at 10:01, the subscriber's "you there?" at 10:02      *)
ScenarioFirst == Message(MsgUuid(1, 1), Subscribers[1], "hi", 1)
ScenarioReply == Message(MsgUuid(1, 2), OperatorUuid, "hi", 2)
ScenarioThird == Message(MsgUuid(1, 3), Subscribers[1], "hi", 3)
ScenarioSeen == SetTimestamp(NoTimestamps, Subscribers[1], ScenarioFirst.sentAt)

(* C11: the three-step scenario.  From the empty state, resolving the       *)
(* history of the first message returns it and leaves its timestamp as last *)
(* seen and its id as the only seen id; from that state, resolving the      *)
(* history with the operator's reply returns no target; and resolving the   *)
(* history with the subscriber's next message returns that message only.    *)
C11_Scenario ==
    [][ResolveChat =>
          LET chat == conv[Subscribers[1]]
              after == processed_messages = {ScenarioFirst.uuid}
                          /\ last_message_timestamps = ScenarioSeen
          IN  /\ (chat = <<ScenarioFirst>> /\ processed_messages = {}
                     /\ last_message_timestamps = NoTimestamps)
                    => /\ unanswered_messages' = <<ScenarioFirst>>
                       /\ last_message_timestamps' = ScenarioSeen
                       /\ processed_messages' = {ScenarioFirst.uuid}
              /\ (chat = <<ScenarioFirst, ScenarioReply>> /\ after)
                    => unanswered_messages' = <<>>
              /\ (chat = <<ScenarioFirst, ScenarioReply, ScenarioThird>> /\ after)
                    => unanswered_messages' = <<ScenarioThird>>]_vars

(* C11's case: the third step of the scenario has returned the third        *)
(* message after the first step had returned the first.                     *)
C11_Witness ==
    /\ conv[Subscribers[1]] = <<ScenarioFirst, ScenarioReply, ScenarioThird>>
    /\ messages = conv[Subscribers[1]]
    /\ unanswered_messages = <<ScenarioThird>>
    /\ processed_messages = {ScenarioFirst.uuid, ScenarioThird.uuid}

(* C12: when the fetched history is empty, the call returns no target and   *)
(* leaves processed_messages and every last seen timestamp as they were.    *)
C12_EmptyHistoryNoChange ==
    [][(ResolveStep /\ messages = <<>>) =>
          /\ unanswered_messages' = <<>>
          /\ processed_messages' = processed_messages
          /\ last_message_timestamps' = last_message_timestamps]_vars

(* C12's case: a call on an empty history has returned while ids and        *)
(* timestamps of earlier calls are held, none yet for this subscriber.      *)
C12_Witness ==
    /\ pc = "resolved"
    /\ messages = <<>>
    /\ unanswered_messages = <<>>
    /\ processed_messages # {}
    /\ last_message_timestamps # NoTimestamps
    /\ user_uuid \notin DOMAIN last_message_timestamps

(* C13: send_message makes at most 3 transport attempts per call and tries  *)
(* again only after an HTTP 429 answer; when all 3 attempts are rate        *)
(* limited it returns failure without raising, and monitor_single_cycle     *)
(* goes on with the next subscriber of the same cycle.                      *)
C13_BoundedRetryOnRateLimit ==
    [][Responded =>
         LET rs == dispatch'.responses
         IN  /\ Len(rs) <= MaxRetries
             /\ \A k \in 1..Len(rs) : k < Len(rs) => rs[k] = "429"
             /\ rs = <<"429", "429", "429">> =>
                  /\ ~dispatch'.sent
                  /\ IF idx < Len(Subscribers)
                     THEN pc' = "check" /\ idx' = idx + 1
                     ELSE pc' = "save"]_vars

(* C13's case: the reply to the first subscriber was rate limited three     *)
(* times, and the cycle stands at the second subscriber.                    *)
C13_Witness ==
    /\ dispatch.responses = <<"429", "429", "429">>
    /\ dispatch.cooldowns = MaxRetries
    /\ ~dispatch.sent
    /\ pc = "check"
    /\ idx = 2

(* the number of rate-limit answers among rs *)
RateLimited(rs) == Cardinality({k \in 1..Len(rs) : rs[k] = "429"})

(* C14: when a transport attempt of send_message fails with anything other  *)
(* than a rate limit (another HTTP error, or an exception of the request),  *)
(* send_message returns failure at once: that attempt is the last one and   *)
(* no cooldown follows it.                                                  *)
C14_OtherErrorFailsAtOnce ==
    [][Responded =>
         LET rs == dispatch'.responses
         IN  \A k \in 1..Len(rs) :
                rs[k] \in {"http error", "network error"} =>
                   /\ k = Len(rs)
                   /\ ~dispatch'.sent
                   /\ dispatch'.cooldowns = RateLimited(rs)]_vars

(* C14's case: a send was rate limited once, waited, and then failed with   *)
(* an exception of the request.                                             *)
C14_Witness ==
    /\ dispatch.responses = <<"429", "network error">>
    /\ dispatch.cooldowns = 1
    /\ ~dispatch.sent

(* C15: when 5 polling cycles in a row have ended in a cycle-level          *)
(* exception the monitor is stopped and runs no further cycle, and a        *)
(* monitor is never stopped by fewer than 5 such cycles in a row.           *)
C15_StopsAtFiveFailures ==
    /\ failed_cycles >= MaxConsecutiveErrors => pc = "stopped"
    /\ pc = "stopped" => failed_cycles >= MaxConsecutiveErrors

(* C16: every polling cycle that completes without a cycle-level exception  *)
(* sets the counter of consecutive failures to zero, a cycle without        *)
(* messages included.                                                       *)
C16_CompletedCycleResets ==
    [][(EndCycle \/ NoSubscribers) => consecutive_errors' = 0]_vars

C18_CommitAfterDispatch ==
    \A u \in SubscriberUuids : \A p \in 1..Len(conv[u]) :
        conv[u][p].uuid \in LoadedProcessed(state_file) =>
            \E q \in (p + 1)..Len(conv[u]) : conv[u][q].sender = OperatorUuid

(* C19: when the generation of the reply for a target fails (the backend    *)
(* answers with an error, reports FAILED or times out, or the account       *)
(* record cannot be read), generate_response_with_llm gives the fixed       *)
(* acknowledgement instead of raising, and send_message is still called     *)
(* for that target in the same cycle.                                       *)
C19_GenerationFallsBack ==
    [][(Responded /\ dispatch'.failed) =>
          /\ dispatch'.text = GenericAck
          /\ Len(dispatch'.responses) >= 1
          /\ dispatch'.target \in generated']_vars

(* C19's case: the generation failed and the fixed acknowledgement went out *)
(* to the chat of the first subscriber.                                     *)
C19_Witness ==
    /\ dispatch.failed
    /\ dispatch.text = GenericAck
    /\ dispatch.responses = <<"ok">>
    /\ dispatch.target = MsgUuid(1, 1)
    /\ Len(conv[Subscribers[1]]) = 2
    /\ conv[Subscribers[1]][2].sender = OperatorUuid

(* C20: at the end of every polling cycle what is on disk is what the       *)
(* object holds: every change the cycle made to processed_messages or       *)
(* last_message_timestamps has been written by save_state before            *)
(* monitor_single_cycle returns.                                            *)
C20_PersistedAtCycleEnd ==
    [][(pc # "sleep" /\ pc' = "sleep") => Persisted']_vars

Monitored(a) == \E t \in TaskIds : tasks[t].account = a /\ Live(t)

(* a reconciliation pass of periodic_account_refresh has just been made     *)
(* (and not: run has cancelled the refresh task in its load)                *)
ReconciliationPass ==
    /\ refresh_pc = "load"
    /\ refresh_pc' # "load"
    /\ main_pc' = main_pc

(* C22: after each reconciliation pass every account the source returned    *)
(* that had no running monitor has had a monitor started, every running     *)
(* monitor whose account was not returned has been cancelled, and the       *)
(* monitors of accounts both running and returned are untouched.            *)
C22_ReconciliationMatchesSource ==
    [][ReconciliationPass =>
         /\ \A a \in current_account_ids' :
               IF Monitored(a)
               THEN \A t \in TaskIds : tasks[t].account = a => tasks'[t] = tasks[t]
               ELSE \E t \in TaskIds :
                        /\ tasks[t].st = "none"
                        /\ tasks'[t] = NewMonitor(a)
         /\ \A t \in TaskIds :
               (Live(t) /\ tasks[t].account \notin current_account_ids') =>
                   tasks'[t].cancel]_vars

C24_FailureContained ==
    [][\A t \in TaskIds :
          (Started(t) /\ tasks'[t].exit = "stopped") =>
              /\ \A u \in TaskIds \ {t} : tasks'[u] = tasks[u]
              /\ \A b \in AccountIds \ {tasks[t].account} :
                    /\ running_tasks'[b] = running_tasks[b]
                    /\ responders'[b] = responders[b]
                    /\ saved_version'[b] = saved_version[b]
              /\ UNCHANGED <<shutdown_event, shutdown_pc, main_pc, refresh_pc>>]_vars

(* C24's case: one account's monitor has stopped by itself while the        *)
(* monitor of another account is polling and no shutdown was asked for.     *)
C24_Witness ==
    \E t, u \in TaskIds :
        /\ tasks[t].exit = "stopped"
        /\ Started(u)
        /\ tasks[u].account # tasks[t].account
        /\ running_tasks[tasks[u].account] = u
        /\ ~shutdown_event

(* the monitor tasks of the account a that have not finished *)
MonitorsOf(a) == {t \in TaskIds : tasks[t].account = a /\ Live(t)}

(* C26: at every moment at most one monitor task is running for an account  *)
(* id, whatever the order of start-up, reconciliation passes, the ends of   *)
(* monitors (whose cleanup removes the entry of running_tasks) and          *)
(* cancellations.                                                           *)
C26_OneMonitorPerAccount ==
    \A a \in AccountIds : Cardinality(MonitorsOf(a)) <= 1

(* C26's case: after the monitor of an account has ended and its entry was  *)
(* removed, a reconciliation pass has started the next one for the account. *)
C26_Witness ==
    \E t, u \in TaskIds :
        /\ tasks[t].account = tasks[u].account
        /\ tasks[t].st = "done"
        /\ tasks[t].exit \in {"stopped", "cancelled in cycle", "cancelled in sleep"}
        /\ Live(u)
        /\ running_tasks[tasks[u].account] = u

(* C27: once shutdown_event is set no account monitor starts a polling      *)
(* cycle: the event is looked at at the top of each cycle, and the sleep    *)
(* between two cycles ends with the cancellation.                           *)
C27_NoCycleAfterShutdown ==
    [][\A t \in TaskIds :
          (tasks[t].st # "cycle" /\ tasks'[t].st = "cycle") => ~shutdown_event]_vars

(* C27's case: with the event set, one monitor found it at the top of its   *)
(* loop and another was cancelled in its sleep; neither polled again.       *)
C27_Witness ==
    /\ shutdown_event
    /\ \E t \in TaskIds : tasks[t].exit = "shutdown"
    /\ \E t \in TaskIds : tasks[t].exit = "cancelled in sleep"

-----------------------------------------------------------------------------
(* get_subscribers: the pages of the subscriber list *)

MaxPages == 3         \* pages of the subscriber list
MaxPageSize == 2      \* subscribers on a page
MaxRateLimits == 2    \* answers 429 the platform gives one call

(* the subscriber at place j of page k; the platform lists none twice *)
SubscriberAt(k, j) == (k - 1) * MaxPageSize + j

(* the "data" of page k when it holds size subscribers *)
PageOf(k, size) == [j \in 1..size |-> SubscriberAt(k, j)]

(* the subscriber lists the platform can hold, page by page; every page but *)
(* the last says pagination.hasMore                                         *)
PageLayouts ==
    UNION {{[k \in 1..n |-> PageOf(k, sizes[k])] : sizes \in [1..n -> 0..MaxPageSize]}
             : n \in 1..MaxPages}

RECURSIVE Flatten(_)
Flatten(ps) == IF ps = <<>> THEN <<>> ELSE Flatten(Front(ps)) \o Last(ps)

(* pagination.get("hasMore", False) of the page p *)
HasMore(p) == p < Len(pages)

(* what get_subscribers returns: all_subscribers, or [] from the outer      *)
(* handler                                                                  *)
SubscribersResult == IF subscribers_pc = "failed" THEN <<>> ELSE all_subscribers

InitPages ==
    /\ conv = [u \in SubscriberUuids |-> <<>>]
    /\ InitResponder
    /\ source = {}
    /\ InitManager
    /\ InitGeneration
    /\ page = 0
    /\ all_subscribers = <<>>
    /\ subscribers_pc = "idle"
    /\ pages \in PageLayouts
    /\ requested = <<>>

(* all_subscribers = []; page = 1; the first request is sent *)
GetSubscribers ==
    /\ subscribers_pc = "idle"
    /\ page' = 1
    /\ all_subscribers' = <<>>
    /\ subscribers_pc' = "request"
    /\ UNCHANGED <<pages, requested>>
    /\ UNCHANGED <<responder_vars, monitor_vars, manager_vars, generation_vars>>

(* the page arrives: extend, then break or page += 1 and the next request *)
PageFetched ==
    /\ subscribers_pc = "request"
    /\ requested' = Append(requested, [page |-> page, response |-> "ok"])
    /\ all_subscribers' = all_subscribers \o pages[page]
    /\ IF HasMore(page)
       THEN page' = page + 1 /\ UNCHANGED subscribers_pc
       ELSE subscribers_pc' = "returned" /\ UNCHANGED page
    /\ UNCHANGED pages
    /\ UNCHANGED <<responder_vars, monitor_vars, manager_vars, generation_vars>>

(* raise_for_status raises HTTPError with status 429: asyncio.sleep(60) *)
PageRateLimited ==
    /\ subscribers_pc = "request"
    /\ Cardinality({i \in 1..Len(requested) : requested[i].response = "429"})
           < MaxRateLimits
    /\ requested' = Append(requested, [page |-> page, response |-> "429"])
    /\ subscribers_pc' = "sleep"
    /\ UNCHANGED <<page, all_subscribers, pages>>
    /\ UNCHANGED <<responder_vars, monitor_vars, manager_vars, generation_vars>>

(* Variant with a slip: after the wait the list is fetched from page 1. *)
PageAfterRateLimit_Restart(p) == 1

(* continue: the loop goes on with the page it had *)
PageAfterRateLimit(p) == p

(* the answers 429 a call has got, as far as the history tells *)
RateLimitsOf(history) ==
    Cardinality({i \in 1..Len(history) : history[i].response = "429"})

(* Variant with a slip: the retries of get_subscribers are counted as those *)
(* of send_message are, and the call gives up at the limit.                 *)
RetriesAgain_Counted(history) == RateLimitsOf(history) < MaxRateLimits

(* the handler of the 429 has no retry counter: continue, whatever came     *)
(* before                                                                   *)
RetriesAgain(history) == TRUE

(* the sleep of 60 s is over: continue, and the request is sent again *)
RetryAfterRateLimit ==
    /\ subscribers_pc = "sleep"
    /\ page' = PageAfterRateLimit(page)
    /\ subscribers_pc' = IF RetriesAgain(requested) THEN "request" ELSE "failed"
    /\ UNCHANGED <<all_subscribers, pages, requested>>
    /\ UNCHANGED <<responder_vars, monitor_vars, manager_vars, generation_vars>>

(* another HTTP error or a network error: re-raised or raised to the outer  *)
(* handler, which returns []                                                *)
PageFails ==
    /\ subscribers_pc = "request"
    /\ requested' = Append(requested, [page |-> page, response |-> "error"])
    /\ subscribers_pc' = "failed"
    /\ UNCHANGED <<page, all_subscribers, pages>>
    /\ UNCHANGED <<responder_vars, monitor_vars, manager_vars, generation_vars>>

NextPages ==
    \/ GetSubscribers
    \/ PageFetched
    \/ PageRateLimited
    \/ RetryAfterRateLimit
    \/ PageFails

SpecPages == InitPages /\ [][NextPages]_vars

(* C28: when the fetch of page p is rate-limited, get_subscribers waits and *)
(* fetches page p again: the page number is neither reset nor advanced, the *)
(* subscribers of the pages already fetched are kept, and the result holds  *)
(* the subscribers of every page exactly once.                              *)
C28_RateLimitRetriesSamePage ==
    /\ \A i \in 1..(Len(requested) - 1) :
          requested[i].response = "429" => requested[i + 1].page = requested[i].page
    /\ (subscribers_pc \in {"request", "sleep"} /\ requested # <<>>
            /\ Last(requested).response = "429") =>
          /\ page = Last(requested).page
          /\ all_subscribers = Flatten(SubSeq(pages, 1, page - 1))
    /\ subscribers_pc = "returned" => SubscribersResult = Flatten(pages)

(* C28's case: a call that was rate-limited on a page after the first, with *)
(* subscribers already fetched, has returned the whole list.                *)
C28_Witness ==
    /\ subscribers_pc = "returned"
    /\ \E i \in 1..Len(requested) :
          /\ requested[i].response = "429"
          /\ requested[i].page > 1
          /\ pages[1] # <<>>
    /\ SubscribersResult = Flatten(pages)
    /\ Len(SubscribersResult) >= 3

(* what check_for_unanswered_messages returns for the subscriber u with the *)
(* history msgs, from the state pm, lmt *)
TargetOf(u, msgs, pm, lmt) ==
    CheckForUnansweredMessages(msgs, OperatorUuid, u, pm, lmt).unanswered

(* C29: resolution for one subscriber is independent of the other           *)
(* subscribers of the account: a resolution for one subscriber leaves what  *)
(* check_for_unanswered_messages returns for every other subscriber, on     *)
(* any history of theirs, as it was (message ids are unique only within a   *)
(* conversation).                                                           *)
C29_SubscribersIndependent ==
    [][ResolveStep =>
          \A u \in SubscriberUuids \ {user_uuid'} :
             \A msgs \in Views(u) :
                TargetOf(u, msgs, processed_messages', last_message_timestamps')
                    = TargetOf(u, msgs, processed_messages, last_message_timestamps)]_vars

-----------------------------------------------------------------------------
(* Eviction: a first run that resolves message after message, its end with  *)
(* the state saved, and the runs after it                                   *)

(* the first run of the responder, nothing saved yet: the n-th id it adds   *)
(* to processed_messages is n                                               *)
ResolveInFirstRun ==
    /\ pc = "sleep"
    /\ state_file = NoFile
    /\ ResolveLatest

NextEviction == ResolveInFirstRun \/ Cancel \/ Restart

SpecEviction == Init /\ [][NextEviction]_vars

(* a new process has just loaded the file and cleaned up *)
Reloaded == pc = "down" /\ pc' = "sleep"

(* C30: when the set of seen ids holds more than 1000, eviction drops the   *)
(* oldest additions first: the ids cleanup_old_processed_messages keeps are *)
(* the 1000 added most recently, also after the set was saved and loaded    *)
(* again.                                                                   *)
C30_EvictsOldestFirst ==
    [][(Reloaded /\ Cardinality(LoadedProcessed(state_file)) > KeepProcessed) =>
          /\ Cardinality(processed_messages') = KeepProcessed
          /\ \A kept \in processed_messages' :
                \A dropped \in LoadedProcessed(state_file) \ processed_messages' :
                   kept > dropped]_vars

LoadFailsInPass == ReconciliationPass /\ source # {} /\ current_account_ids' = {}

(* C34: when the account source fails during a reconciliation pass, the     *)
(* pass leaves the running monitors as they are: none is cancelled because  *)
(* of the failure.                                                          *)
C34_FailedLoadCancelsNothing ==
    [][LoadFailsInPass => \A t \in TaskIds : tasks'[t] = tasks[t]]_vars

(* C36: every account id that is a key of running_tasks has a monitor task  *)
(* that has not finished: when a monitor ends, for whatever reason, its     *)
(* entry is removed.                                                        *)
C36_RunningTasksAreLive ==
    \A a \in AccountIds : running_tasks[a] # NoTask => Live(running_tasks[a])

(* C37: a monitor that stopped itself at the limit of consecutive failures  *)
(* is started again by the next reconciliation pass when the source still   *)
(* returns its account: its cleanup removes the entry of running_tasks, and *)
(* the pass that finds the account without entry makes a new task for it,   *)
(* which begins monitor_account_continuously anew, its counter at zero.     *)
C37_StoppedMonitorStartedAgain ==
    [][/\ \A t \in TaskIds :
             (Started(t) /\ tasks'[t].exit = "stopped") =>
                 running_tasks'[tasks[t].account] = NoTask
       /\ ReconciliationPass =>
             \A a \in current_account_ids' :
                (/\ running_tasks[a] = NoTask
                 /\ \E t \in TaskIds : tasks[t].account = a /\ tasks[t].exit = "stopped")
                    => \E t \in TaskIds :
                          /\ tasks[t].st = "none"
                          /\ tasks'[t] = NewMonitor(a)
                          /\ running_tasks'[a] = t]_vars

(* C37's case: the monitor of an account has stopped itself, and the task   *)
(* a later pass made for the account is polling.                            *)
C37_Witness ==
    \E t, u \in TaskIds :
        /\ tasks[t].exit = "stopped"
        /\ tasks[u].account = tasks[t].account
        /\ Started(u)
        /\ running_tasks[tasks[u].account] = u
        /\ ~shutdown_event

(* C38: when the load of start-up returns no accounts (an empty table or a  *)
(* failure of the source), start_monitoring_all_accounts returns without a  *)
(* monitor, run cancels the refresh task, and no monitor is started in the  *)
(* run from then on.                                                        *)
C38_EmptyStartUpStartsNothing ==
    [][/\ (main_pc = "load" /\ main_pc' # "load"
               /\ \A t \in TaskIds : tasks'[t].st = "none") =>
             (main_pc' = "done" /\ refresh_pc' = "done")
       /\ (main_pc = "done" /\ shutdown_pc["main"] = "none") =>
             (tasks' = tasks /\ \A t \in TaskIds : tasks[t].st = "none")]_vars

(* C38's case: the load of start-up failed while the source holds accounts; *)
(* run is over and has no monitor.                                          *)
C38_Witness ==
    /\ main_pc = "done"
    /\ refresh_pc = "done"
    /\ shutdown_pc["main"] = "none"
    /\ source # {}
    /\ \A t \in TaskIds : tasks[t].st = "none"

(* C39: a reconciliation pass makes no monitor task once shutdown has been  *)
(* signalled, also when the pass was waiting for the accounts when the      *)
(* signal came.                                                             *)
C39_NoMonitorMadeAfterShutdown ==
    [][(ReconciliationPass /\ shutdown_event) =>
          \A t \in TaskIds : tasks[t].st = "none" => tasks'[t].st = "none"]_vars

(* C35: monitor_single_cycle raises no exception to the loop of the         *)
(* monitor: a failure inside a cycle (the fetch of the subscribers, the     *)
(* work for a subscriber, the save) ends in a return value or a skip, so    *)
(* consecutive_errors rises only in steps taken outside a cycle, and no     *)
(* step of a cycle under way stops the monitor.                             *)
C35_CycleNeverRaises ==
    [][/\ consecutive_errors' > consecutive_errors => pc = "sleep"
       /\ pc # "sleep" => pc' # "stopped"
       /\ (subscriber_error' /\ ~subscriber_error) =>
             consecutive_errors' = consecutive_errors]_vars

(* C35's case: the work for a subscriber has failed and a cycle has failed  *)
(* as a whole, and the counter of the loop is still at zero.                *)
C35_Witness ==
    /\ subscriber_error
    /\ failed_cycles >= 2
    /\ consecutive_errors = 0
    /\ pc = "sleep"

-----------------------------------------------------------------------------
(* get_subscribers with a transport that can answer 429 any number of times *)

(* one more 429 after those the history holds: the history keeps the first  *)
(* MaxRateLimits of a call                                                  *)
PageRateLimitedAgain ==
    /\ subscribers_pc = "request"
    /\ RateLimitsOf(requested) >= MaxRateLimits
    /\ subscribers_pc' = "sleep"
    /\ UNCHANGED <<page, all_subscribers, pages, requested>>
    /\ UNCHANGED <<responder_vars, monitor_vars, manager_vars, generation_vars>>

NextTransport == NextPages \/ PageRateLimitedAgain

(* every request is answered and every sleep ends *)
SpecTransport == InitPages /\ [][NextTransport]_vars /\ WF_vars(NextTransport)

(* get_subscribers has returned, with the list or with [] *)
SubscribersDone == subscribers_pc \in {"returned", "failed"}

(* C40: get_subscribers terminates when the transport answers 429 only      *)
(* finitely many times (the list has finitely many pages); the retries of a *)
(* page are not bounded: after every 429, whatever their number, the call   *)
(* waits and asks again, so with a transport that always answers 429 it     *)
(* never returns.                                                           *)
C40_TerminatesUnlessAlwaysRateLimited ==
    /\ ([]<>(subscribers_pc = "sleep")) \/ <>SubscribersDone
    /\ [][subscribers_pc = "sleep" => subscribers_pc' = "request"]_vars

(* C40's case: a call that was rate-limited as often as the history can     *)
(* tell has gone on and returned the list of several pages.                 *)
C40_Witness ==
    /\ subscribers_pc = "returned"
    /\ RateLimitsOf(requested) = MaxRateLimits
    /\ Len(pages) >= 2

-----------------------------------------------------------------------------
(* generate_response_with_llm: which backend answers *)

DefaultModel == "google/gemini-2.0-flash-001"
SthenoModel == "stheno-nsfw"

(* the settings of llm the specification tells apart: unset, the model of   *)
(* the chat-completion backend, the same in capitals, the default, others   *)
LlmSettings == {NoLlm, SthenoModel, "STHENO-NSFW", DefaultModel, "openai/gpt-4o",
                "meta-llama/llama-3.1-70b-instruct"}

NoRecord == "no record"    \* the source holds no record of the account

(* get_fanvue_account_by_id of the DatabaseManager made in __init__ of the  *)
(* manager: the class has no such attribute, the lookup raises              *)
(* AttributeError before any query is sent, whatever the source holds       *)
GetFanvueAccountById(record) == "raises"

(* x.llm if x.llm else the default *)
LlmOrDefault(llm) == IF llm = NoLlm THEN DefaultModel ELSE llm

(* model: of the account just read, or of the cached one without it *)
ModelOf(read, fresh, cached) ==
    IF read = "account" THEN LlmOrDefault(fresh) ELSE LlmOrDefault(cached)

(* if model == "stheno-nsfw": the chat-completion backend, else the queue *)
BackendFor(model) == IF model = SthenoModel THEN "openai" ELSE "fal"

InitGeneration_Inputs ==
    /\ conv = [u \in SubscriberUuids |-> <<>>]
    /\ InitResponder
    /\ source = {}
    /\ InitManager
    /\ InitSubscribers
    /\ generation_pc = "idle"
    /\ account_llm \in LlmSettings
    /\ source_llm \in LlmSettings \cup {NoRecord}
    /\ backend_used = "none"
    /\ generation_result = ""
    /\ waited_time = 0
    /\ status = ""
    /\ polls = 0
    /\ submits = 0

(* respond_to_messages calls generate_response_with_llm, which awaits the   *)
(* read of the account                                                      *)
CallGenerateResponseWithLlm ==
    /\ generation_pc = "idle"
    /\ generation_pc' = "read"
    /\ UNCHANGED <<account_llm, source_llm, backend_used, generation_result,
                   waited_time, status, polls, submits>>
    /\ UNCHANGED <<responder_vars, monitor_vars, manager_vars, subscribers_vars>>

(* the read is over and the rest of generate_response_with_llm runs: the    *)
(* model, the backend chosen by it and the answer of the backend; any       *)
(* exception ends in the fixed acknowledgement                              *)
AccountRead ==
    /\ generation_pc = "read"
    /\ \E answer \in Backends :
         LET read == GetFanvueAccountById(source_llm)
             model == ModelOf(read, source_llm, account_llm)
         IN  /\ backend_used' = IF read = "raises" THEN "none"
                                ELSE BackendFor(model)
             /\ generation_result' = GenerateResponseWithLlm(read, answer).text
    /\ generation_pc' = "returned"
    /\ UNCHANGED <<account_llm, source_llm, waited_time, status, polls, submits>>
    /\ UNCHANGED <<responder_vars, monitor_vars, manager_vars, subscribers_vars>>

NextGeneration == CallGenerateResponseWithLlm \/ AccountRead

SpecGeneration == InitGeneration_Inputs /\ [][NextGeneration]_vars

(* the identifier the specification selects by: of the record of the        *)
(* source, of the cached account when the source holds none                 *)
ExpectedModel ==
    IF source_llm # NoRecord THEN LlmOrDefault(source_llm)
    ELSE LlmOrDefault(account_llm)

(* C31: the backend of a generation is a function of the model identifier   *)
(* only: 'stheno-nsfw' goes to the chat-completion backend and every other  *)
(* identifier to the job queue; the identifier is that of the record read   *)
(* from the source, or the cached one when the source has no record, with   *)
(* the default model for an unset one.                                      *)
C31_BackendByModel ==
    generation_pc = "returned" =>
        backend_used = (IF ExpectedModel = SthenoModel THEN "openai" ELSE "fal")

-----------------------------------------------------------------------------
(* generate_response_with_fal_ai: a job of the queue, submitted and polled *)

MaxWaitTime == 60     \* max_wait_time, seconds
PollInterval == 2     \* poll_interval, seconds

(* what a status request is answered with: a status of the queue, or an     *)
(* error of the request itself (HTTP error, timeout, no "status" key)       *)
StatusAnswers == {"IN_QUEUE", "IN_PROGRESS", "COMPLETED", "FAILED", "error"}

(* what the request of the result is answered with *)
ResultAnswers == {"output", "error field", "error"}

(* Variant with a slip: the time waited is not added up. *)
WaitedAfterSleep_Kept(waited) == waited

(* waited_time += poll_interval *)
WaitedAfterSleep(waited) == waited + PollInterval

(* the call: the job is posted to the queue *)
SubmitJob ==
    /\ generation_pc = "idle"
    /\ generation_pc' = "submit"
    /\ backend_used' = "fal"
    /\ submits' = submits + 1
    /\ UNCHANGED <<account_llm, source_llm, generation_result, waited_time,
                   status, polls>>
    /\ UNCHANGED <<responder_vars, monitor_vars, manager_vars, subscribers_vars>>

(* the post is answered: with a request_id the polling starts, an error of  *)
(* the post is raised to the caller                                        *)
SubmitAnswered ==
    /\ generation_pc = "submit"
    /\ \E ok \in BOOLEAN :
         IF ok
         THEN /\ generation_pc' = "poll"
              /\ waited_time' = 0
              /\ UNCHANGED generation_result
         ELSE /\ generation_pc' = "raised"
              /\ generation_result' = "error"
              /\ UNCHANGED waited_time
    /\ UNCHANGED <<account_llm, source_llm, backend_used, status, polls, submits>>
    /\ UNCHANGED <<responder_vars, monitor_vars, manager_vars, subscribers_vars>>

(* one turn of the loop up to its sleep: the status is asked for and        *)
(* answered                                                                 *)
PollStatus ==
    /\ generation_pc = "poll"
    /\ waited_time < MaxWaitTime
    /\ \E answer \in StatusAnswers :
         /\ status' = answer
         /\ generation_pc' = CASE answer = "COMPLETED" -> "result"
                               [] answer \in {"FAILED", "error"} -> "raised"
                               [] OTHER -> "sleep"
         /\ generation_result' = CASE answer = "FAILED" -> "failed"
                                   [] answer = "error" -> "error"
                                   [] OTHER -> generation_result
    /\ polls' = polls + 1
    /\ UNCHANGED <<account_llm, source_llm, backend_used, waited_time, submits>>
    /\ UNCHANGED <<responder_vars, monitor_vars, manager_vars, subscribers_vars>>

(* the sleep of poll_interval is over *)
PollSleepOver ==
    /\ generation_pc = "sleep"
    /\ waited_time' = WaitedAfterSleep(waited_time)
    /\ generation_pc' = "poll"
    /\ UNCHANGED <<account_llm, source_llm, backend_used, generation_result,
                   status, polls, submits>>
    /\ UNCHANGED <<responder_vars, monitor_vars, manager_vars, subscribers_vars>>

(* the loop ends without a COMPLETED status: "Fal AI request timed out" *)
PollTimedOut ==
    /\ generation_pc = "poll"
    /\ ~(waited_time < MaxWaitTime)
    /\ generation_pc' = "raised"
    /\ generation_result' = "timed out"
    /\ UNCHANGED <<account_llm, source_llm, backend_used, waited_time, status,
                   polls, submits>>
    /\ UNCHANGED <<responder_vars, monitor_vars, manager_vars, subscribers_vars>>

(* after COMPLETED the result is asked for: its output is returned, its     *)
(* error field or an error of the request is raised                         *)
ResultFetched ==
    /\ generation_pc = "result"
    /\ \E answer \in ResultAnswers :
         IF answer = "output"
         THEN /\ generation_pc' = "returned"
              /\ generation_result' = LlmText
         ELSE /\ generation_pc' = "raised"
              /\ generation_result' = "error"
    /\ UNCHANGED <<account_llm, source_llm, backend_used, waited_time, status,
                   polls, submits>>
    /\ UNCHANGED <<responder_vars, monitor_vars, manager_vars, subscribers_vars>>

NextJobQueue ==
    \/ SubmitJob
    \/ SubmitAnswered
    \/ PollStatus
    \/ PollSleepOver
    \/ PollTimedOut
    \/ ResultFetched

SpecJobQueue == InitGeneration_Inputs /\ [][NextJobQueue]_vars

(* C32: a generation of the job queue submits once and polls a bounded      *)
(* number of times, one poll per interval of 2 s up to 60 s, 30 polls at    *)
(* most; the result is fetched and returned only after a COMPLETED status,  *)
(* a FAILED status fails the call at once, and at the bound the call fails  *)
(* with a timeout without another poll.                                     *)
C32_BoundedPolling ==
    /\ [](/\ submits <= 1
          /\ generation_pc # "idle" => submits = 1
          /\ polls * PollInterval <= MaxWaitTime
          /\ generation_pc = "poll" => polls * PollInterval = waited_time
          /\ generation_pc = "sleep" =>
                polls * PollInterval = waited_time + PollInterval
          /\ generation_pc = "result" => status = "COMPLETED"
          /\ generation_pc = "returned" =>
                status = "COMPLETED" /\ generation_result = LlmText
          /\ status = "FAILED" =>
                generation_pc = "raised" /\ generation_result = "failed"
          /\ generation_result = "timed out" =>
                /\ generation_pc = "raised"
                /\ polls * PollInterval = MaxWaitTime
                /\ status \notin {"COMPLETED", "FAILED"})
    /\ [][(generation_pc = "poll" /\ waited_time >= MaxWaitTime) =>
             /\ generation_pc' = "raised"
             /\ generation_result' = "timed out"
             /\ polls' = polls]_vars

(* C32's case: a job that was never COMPLETED nor FAILED has been polled 30 *)
(* times and the call has failed with the timeout.                          *)
C32_Witness ==
    /\ generation_pc = "raised"
    /\ generation_result = "timed out"
    /\ polls * PollInterval = MaxWaitTime
    /\ submits = 1

=============================================================================
